---- MODULE Spec2Model ----
(***************************************************************************)
(* Model of the streaming kinship engine of rqtl2-geno-kinship-rust:       *)
(*   - src/src/util/kinship.rs : calc_kinship_parallel (channels moving    *)
(*     WorkUnits), calc_partial_kinship, mirror_and_scale_kinship;         *)
(*   - src/src/lib.rs : GenoParser::calc_kinship (Arc<Mutex> buffers and a *)
(*     free list of buffer indices), calc_partial_kinship.                 *)
(* A Rust Vec<f64> is a function on 0..len-1, so that the index arithmetic *)
(* of the source (j * ids_num + i) is kept as written.  Values are exact:  *)
(* integers while accumulating, reduced fractions <<num, den>> after the   *)
(* division of the finalization step.                                      *)
(***************************************************************************)
EXTENDS Integers, Sequences, FiniteSets, TLC

(***************************************************************************)
(* Bounds of the model.                                                    *)
(***************************************************************************)
MaxD == 2

MaxK == 2

MaxN == 2

MaxRows == 5

MaxBatch == 2

MaxCalls == 2

MaxFairRows == 3

MaxSnp == 2

MaxFile == 4

(* std::cmp::min(num_cpus::get(), 10): the cap on the pool with the GPU.    *)
GpuCap == 10

(* A machine with more logical cores than the cap.                         *)
BigCpus == GpuCap + 1

(***************************************************************************)
(* calc_kinship_parallel (src/src/util/kinship.rs).                        *)
(*   pUnits[u]  : the WorkUnit created by iteration u of the set-up loop;  *)
(*                its sender field names the worker channel it carries.    *)
(*   pRetq      : messages in the WORKER -> MAIN channel.                  *)
(*   pWq[w]     : messages in the MAIN -> WORKER channel of worker w.      *)
(*   pDhold     : the unit bound to work_unit in the dispatcher (0: none). *)
(*   pWhold[w]  : the unit bound to work_unit in worker w (0: none).       *)
(*   pDropped   : units that have been dropped.                            *)
(*   pMainTx    : worker_thread_sender is alive; pRx: main_thread_consumer *)
(*                is alive.  Worker w's clone of the sender lives as long  *)
(*                as its closure runs.                                     *)
(*   pAcc, pTotal, pPos : state of the caller's processor closure.         *)
(*   pCpus, pOnGpu : num_cpus::get() and the on_gpu argument; pProbe: what *)
(*                the availability probes found ("none": not probed).      *)
(*   pFault     : a fault of the kernel inside a worker: "none", "armed"   *)
(*                (one run will fail), "panicked", "silent".               *)
(*   pProcessed, pComputed : the units that have been passed to the        *)
(*                processor, and those a worker has run the kernel on.     *)
(*   pTouched   : the cells of a result buffer that a kernel run has gone  *)
(*                over so far.                                             *)
(*   pDispatches, pSentBack : how many units the dispatcher has sent to a  *)
(*                worker, and how many the workers have sent back.         *)
(***************************************************************************)
VARIABLES pN, pD, pBatch, pRowsN, pErrAt,
          pDpc, pMade, pUnits, pRetq, pWq, pDhold, pWhold, pDropped,
          pWpc, pJoined, pMainTx, pRx, pAcc, pTotal, pPos, pCalls,
          pWriters, pFinal, pCpus, pOnGpu, pProbe, pFault, pProcessed,
          pComputed, pTouched, pDispatches, pSentBack

pvars == <<pN, pD, pBatch, pRowsN, pErrAt,
           pDpc, pMade, pUnits, pRetq, pWq, pDhold, pWhold, pDropped,
           pWpc, pJoined, pMainTx, pRx, pAcc, pTotal, pPos, pCalls,
           pWriters, pFinal, pCpus, pOnGpu, pProbe, pFault, pProcessed,
           pComputed, pTouched, pDispatches, pSentBack>>

(***************************************************************************)
(* GenoParser::calc_kinship (src/src/lib.rs).                              *)
(*   lFree        : indices queued in the kinship_processor/buffer_filler  *)
(*                  channel.                                               *)
(*   lReadBufs[i], lKinBufs[i], lCommon : the vectors behind read_bufs[i], *)
(*                  kinship_bufs[i] and common_kinship_matrix.             *)
(*   lRLock[i], lKLock[i], lMLock : the thread holding each mutex (0: no   *)
(*                  one; "main": the main thread; t: spawned thread t).    *)
(*   lThreads[t]  : the t-th spawned thread: its buffer index, its         *)
(*                  position, the rows its batch holds (from+1..from+rows) *)
(*                  and the row count k its kernel run used.               *)
(*   lMergeOrder  : the threads that have merged into the common matrix,   *)
(*                  in the order they did.                                 *)
(*   lRx          : buffer_filler (the receiver) is alive.                 *)
(*   lPos         : the rows of the file behind the cursor: of the File    *)
(*                  of the parser between calls, of line_iter within one.  *)
(*   lBuf         : the rows self.file_reader holds in its buffer, read    *)
(*                  from the File and not yet consumed.                    *)
(*   lStart       : the rows behind the cursor when line_iter was made.    *)
(*   lCalls       : the calls of calc_kinship on this parser so far.       *)
(*   lFault       : a fault of the kernel inside a thread, as pFault.      *)
(*   lTouched     : the cells of a result buffer or of the common matrix   *)
(*                  that a kernel run or a merge has gone over so far.     *)
(***************************************************************************)
VARIABLES lN, lD, lBatch, lRowsN, lErrAt,
          lPc, lFree, lIdx, lReadBufs, lKinBufs, lCommon,
          lRLock, lKLock, lMLock, lPoisoned, lThreads, lJoined,
          lTotal, lPos, lRead, lRx, lRes, lMergeOrder,
          lBuf, lStart, lCalls, lFault, lTouched

lvars == <<lN, lD, lBatch, lRowsN, lErrAt,
           lPc, lFree, lIdx, lReadBufs, lKinBufs, lCommon,
           lRLock, lKLock, lMLock, lPoisoned, lThreads, lJoined,
           lTotal, lPos, lRead, lRx, lRes, lMergeOrder,
           lBuf, lStart, lCalls, lFault, lTouched>>

(* The kernel run on its own: one batch, one result buffer.                *)
VARIABLES kD, kRows, kBefore, kAfter, kpc

kvars == <<kD, kRows, kBefore, kAfter, kpc>>

(* The finalization step on its own: a matrix, the row count, the matrix   *)
(* after one application and after a second one.                           *)
VARIABLES mD, mIn, mTotal, mOnce, mTwice, mpc

mvars == <<mD, mIn, mTotal, mOnce, mTwice, mpc>>

(* The decoding of one line: the line as split('\t') sees it, the length   *)
(* of the slot it is parsed into, and what parse_into and parse_snp_rec    *)
(* give; dIter is what GenoParserIter::next gives on the stream of that    *)
(* line followed by one well-formed row.                                   *)
VARIABLES dLine, dLen, dInto, dRec, dpc, dIter

dvars == <<dLine, dLen, dInto, dRec, dpc, dIter>>

(* The head of a file: its characters, and what consume_comments2 and      *)
(* GenoParser::new_with_file give.                                         *)
VARIABLES rFile, rComments, rParser, rpc

rvars == <<rFile, rComments, rParser, rpc>>

xvars == <<mvars, dvars, rvars>>

vars == <<pvars, lvars, kvars, xvars>>

notPar == <<lvars, kvars, xvars>>

notLib == <<pvars, kvars, xvars>>

notKernel == <<pvars, lvars, xvars>>

notMirror == <<pvars, lvars, kvars, dvars, rvars>>

notDecode == <<pvars, lvars, kvars, mvars, rvars>>

notReader == <<pvars, lvars, kvars, mvars, dvars>>

(***************************************************************************)
(* Vectors and exact arithmetic.                                           *)
(***************************************************************************)
VLen(v) == Cardinality(DOMAIN v)

VecOf(n, x) == [c \in 0..(n - 1) |-> x]

Resize(v, n, x) == [c \in 0..(n - 1) |-> IF c \in DOMAIN v THEN v[c] ELSE x]

Abs(x) == IF x < 0 THEN -x ELSE x

Min(a, b) == IF a < b THEN a ELSE b

RECURSIVE Gcd(_, _)
Gcd(a, b) == IF b = 0 THEN a ELSE Gcd(b, a % b)

Rat(n, d) ==
  LET g == Gcd(Abs(n), Abs(d))
      s == IF d < 0 THEN -1 ELSE 1
  IN  IF g = 0 THEN <<0, 0>> ELSE <<s * (n \div g), s * (d \div g)>>

ToRat(x) == Rat(x, 1)

RMul(a, b) == Rat(a[1] * b[1], a[2] * b[2])

RDiv(a, t) == Rat(a[1], a[2] * t)

RECURSIVE ISqrtFrom(_, _)
ISqrtFrom(n, r) == IF (r + 1) * (r + 1) > n THEN r ELSE ISqrtFrom(n, r + 1)

(***************************************************************************)
(* The kernel, transcribed loop by loop.                                   *)
(***************************************************************************)
RECURSIVE KernelI(_, _, _, _, _, _)
KernelI(snps, pm, n, j, l, i) ==
  IF i >= n THEN pm
  ELSE KernelI(snps,
               [pm EXCEPT ![j * n + i] = @ + snps[l * n + j] * snps[l * n + i]],
               n, j, l, i + 1)

RECURSIVE KernelL(_, _, _, _, _, _)
KernelL(snps, pm, n, k, j, l) ==
  IF l >= k THEN pm
  ELSE KernelL(snps, KernelI(snps, pm, n, j, l, j), n, k, j, l + 1)

RECURSIVE KernelJ(_, _, _, _, _)
KernelJ(snps, pm, n, k, j) ==
  IF j >= n THEN pm
  ELSE KernelJ(snps, KernelL(snps, pm, n, k, j, 0), n, k, j + 1)

calc_partial_kinship_full(snps, partial_matrix, ids_num) ==
  LET n == ids_num
      k == VLen(snps) \div n
      RECURSIVE Rows(_, _)
      Rows(pm, l) ==
        IF l >= k THEN pm
        ELSE Rows([c \in DOMAIN pm |->
                     pm[c] + snps[l * n + (c \div n)] * snps[l * n + (c % n)]],
                  l + 1)
  IN  Rows(partial_matrix, 0)

calc_partial_kinship_short(snps, partial_matrix, ids_num) ==
  LET n == ids_num
      k == (VLen(snps) \div n) - 1
  IN  KernelJ(snps, partial_matrix, n, k, 0)

calc_partial_kinship(snps, partial_matrix, ids_num) ==
  LET n == ids_num
      k == VLen(snps) \div n
  IN  KernelJ(snps, partial_matrix, n, k, 0)

calc_ids_num(kinship_matrix) == ISqrtFrom(VLen(kinship_matrix), 0)

(* The cells partial_matrix[j * ids_num + i] the loops of                  *)
(* calc_partial_kinship go over: for j in 0..n, for l in 0..k, for i in    *)
(* j..n.                                                                   *)
kernel_cells(snps, ids_num) ==
  LET n == ids_num
      k == VLen(snps) \div n
  IN  UNION {{j * ids_num + i : i \in j..(n - 1)} :
               j \in {x \in 0..(n - 1) : k > 0}}

(* The cells the merge goes over:                                          *)
(* threads_kins_buf.iter_mut().zip(res_matrix.iter_mut()).                 *)
merge_cells(threads_kins_buf, res_matrix) ==
  0..(Min(VLen(threads_kins_buf), VLen(res_matrix)) - 1)

Touch(by, cells) == {[by |-> by, cell |-> c] : c \in cells}

kinship_calc_partial_kinship(snps, partial_matrix) ==
  LET ids_num == calc_ids_num(partial_matrix)
      n == ids_num
      k == VLen(snps) \div n
  IN  KernelJ(snps, partial_matrix, n, k, 0)

(* The vendor routine behind call_cublas_dsyrk: the same rank-k update of  *)
(* the same triangle.                                                      *)
call_cublas_dsyrk(snps, res, ids_num, row_count) ==
  KernelJ(snps, res, ids_num, row_count, 0)

calc_partial_kinship_cublas(snps, partial_matrix) ==
  LET ids_num == calc_ids_num(partial_matrix)
      row_count == VLen(snps) \div ids_num
  IN  call_cublas_dsyrk(snps, partial_matrix, ids_num, row_count)

(***************************************************************************)
(* Inputs of the kernel specification: batches of K rows of length D and   *)
(* a result buffer that is zero or already holds partial sums.             *)
(***************************************************************************)
RowBases == {0, 1, 4}

RowSteps == {0, 1}

RowMenu(d) == {[c \in 0..(d - 1) |-> b + s * c] : b \in RowBases, s \in RowSteps}

Pack(rows, d) ==
  [x \in 0..(Len(rows) * d - 1) |-> rows[(x \div d) + 1][x % d]]

RowSeqs(d, k) == UNION {[1..m -> RowMenu(d)] : m \in 0..k}

StartBufs(d) == {VecOf(d * d, 0), [c \in 0..(d * d - 1) |-> 7 + c]}


(***************************************************************************)
(* The record stream shared by both engines: row r of a file of D markers, *)
(* and the index of the one line (if any) whose decoding fails.            *)
(***************************************************************************)
Geno(r, d) == [c \in 0..(d - 1) |-> 3 * (r - 1) + c + 1]

(* zip(chunks of the buffer, lines): a chunk is taken before a line is, so  *)
(* a full buffer consumes no further line; the first line that fails to    *)
(* decode ends the call with an error, the rows before it already written. *)
ZipFill(buf, d, pos, nrows, errAt) ==
  LET slots == (VLen(buf) + d - 1) \div d
      avail == Min(slots, nrows - pos)
      bad   == errAt \in (pos + 1)..(pos + avail)
      cnt   == IF bad THEN errAt - pos - 1 ELSE avail
  IN  [err   |-> bad,
       count |-> cnt,
       pos   |-> IF bad THEN errAt ELSE pos + cnt,
       buf   |-> [x \in DOMAIN buf |->
                    IF x \div d < cnt THEN Geno(pos + (x \div d) + 1, d)[x % d]
                    ELSE buf[x]]]

fill_buffer(fill_buf, d, pos, nrows, errAt) ==
  ZipFill(fill_buf, d, pos, nrows, errAt)

mirror_and_scale_kinship_scale_only(common_kinship_matrix, ids_num, scale) ==
  LET RECURSIVE LoopJ(_, _, _)
      LoopJ(m, i, j) ==
        IF j > i THEN m
        ELSE LoopJ([m EXCEPT ![j * ids_num + i] = RMul(@, scale)], i, j + 1)
      RECURSIVE LoopI(_, _)
      LoopI(m, i) == IF i >= ids_num THEN m ELSE LoopI(LoopJ(m, i, 0), i + 1)
  IN  LoopI(common_kinship_matrix, 0)

mirror_and_scale_kinship(common_kinship_matrix, ids_num, scale) ==
  LET RECURSIVE LoopJ(_, _, _)
      LoopJ(m, i, j) ==
        IF j > i THEN m
        ELSE LET m1 == [m EXCEPT ![j * ids_num + i] = RMul(@, scale)]
                 m2 == [m1 EXCEPT ![i * ids_num + j] = m1[j * ids_num + i]]
             IN  LoopJ(m2, i, j + 1)
      RECURSIVE LoopI(_, _)
      LoopI(m, i) == IF i >= ids_num THEN m ELSE LoopI(LoopJ(m, i, 0), i + 1)
  IN  LoopI(common_kinship_matrix, 0)

Workers == 1..pN

NewUnit(w) ==
  [sender     |-> w,
   input_buf  |-> VecOf(pD * pBatch, 0),
   result_buf |-> VecOf(pD * pD, 0),
   chr_num    |-> 0]

(* The arguments of a call and the machine it runs on.  The second case is *)
(* a machine with more cores than the cap of the GPU pool, on an empty     *)
(* stream.                                                                 *)
ParStart ==
  /\ \/ /\ pCpus \in 1..MaxN
        /\ pOnGpu \in BOOLEAN
        /\ pD \in 1..MaxD
        /\ pBatch \in 0..MaxBatch
        /\ pRowsN \in 0..MaxRows
        /\ pErrAt \in 0..pRowsN
     \/ /\ pCpus = BigCpus
        /\ pOnGpu = TRUE
        /\ pD = 1
        /\ pBatch = 1
        /\ pRowsN = 0
        /\ pErrAt = 0
  /\ pN = 0
  /\ pDpc = "probe"
  /\ pProbe = "none"
  /\ pMade = 0
  /\ pUnits = <<>>
  /\ pRetq = <<>>
  /\ pWq = <<>>
  /\ pDhold = 0
  /\ pWhold = <<>>
  /\ pDropped = {}
  /\ pWpc = <<>>
  /\ pJoined = {}
  /\ pMainTx = FALSE
  /\ pRx = FALSE
  /\ pAcc = VecOf(pD * pD, 0)
  /\ pTotal = 0
  /\ pPos = 0
  /\ pCalls = 0
  /\ pWriters = {}
  /\ pFinal = <<>>
  /\ pProcessed = {}
  /\ pComputed = {}
  /\ pTouched = {}
  /\ pDispatches = 0
  /\ pSentBack = 0

ParInit == ParStart /\ pFault = "none"

ProbeOutcomes == {"ok", "no_cudart", "no_cublas", "no_device"}

buf_num_uncapped(on_gpu, cpus) == cpus

(* let buf_num = if on_gpu { .. std::cmp::min(num_cpus::get(), 10) }       *)
(*               else { num_cpus::get() };                                 *)
buf_num(on_gpu, cpus) == IF on_gpu THEN Min(cpus, GpuCap) ELSE cpus

(* The pool is set up: the return channel and the (empty) threads vector.  *)
StartPool(n) ==
  /\ pN' = n
  /\ pUnits' = [u \in 1..n |-> NewUnit(u)]
  /\ pWq' = [w \in 1..n |-> <<>>]
  /\ pWhold' = [w \in 1..n |-> 0]
  /\ pWpc' = [w \in 1..n |-> "unspawned"]
  /\ pMainTx' = TRUE
  /\ pRx' = TRUE
  /\ pDpc' = "setup"

P_ProbeFallback ==
  /\ pDpc = "probe"
  /\ IF pOnGpu
     THEN \E o \in ProbeOutcomes :
            /\ pProbe' = o
            /\ pOnGpu' = (o = "ok")
            /\ StartPool(buf_num(o = "ok", pCpus))
     ELSE /\ StartPool(buf_num(FALSE, pCpus))
          /\ UNCHANGED <<pProbe, pOnGpu>>
  /\ UNCHANGED <<pD, pBatch, pRowsN, pErrAt, pMade, pRetq, pDhold, pDropped,
                 pJoined, pAcc, pTotal, pPos, pCalls, pWriters, pFinal>>
  /\ UNCHANGED <<pCpus, pFault, pProcessed, pComputed, pTouched>>
  /\ UNCHANGED <<pDispatches, pSentBack>>
  /\ UNCHANGED notPar

(* With on_gpu the two libraries are loaded and the device is looked for;  *)
(* a failure returns the GPU error at once.  Then buf_num, the return      *)
(* channel and the threads vector.                                         *)
P_Probe ==
  /\ pDpc = "probe"
  /\ IF pOnGpu
     THEN \E o \in ProbeOutcomes :
            /\ pProbe' = o
            /\ IF o = "ok"
               THEN StartPool(buf_num(TRUE, pCpus))
               ELSE /\ pDpc' = "caperr"
                    /\ UNCHANGED <<pN, pUnits, pWq, pWhold, pWpc, pMainTx, pRx>>
     ELSE /\ StartPool(buf_num(FALSE, pCpus))
          /\ UNCHANGED pProbe
  /\ UNCHANGED <<pD, pBatch, pRowsN, pErrAt, pMade, pRetq, pDhold, pDropped,
                 pJoined, pAcc, pTotal, pPos, pCalls, pWriters, pFinal>>
  /\ UNCHANGED <<pCpus, pOnGpu, pFault, pProcessed, pComputed, pTouched>>
  /\ UNCHANGED <<pDispatches, pSentBack>>
  /\ UNCHANGED notPar

P_SetupToWorker ==
  /\ pDpc = "setup"
  /\ pMade < pN
  /\ pMade' = pMade + 1
  /\ pUnits' = [pUnits EXCEPT ![pMade + 1] = NewUnit(pMade + 1)]
  /\ pWq' = [pWq EXCEPT ![pMade + 1] = Append(@, pMade + 1)]
  /\ pWpc' = [pWpc EXCEPT ![pMade + 1] = "recv"]
  /\ UNCHANGED <<pN, pD, pBatch, pRowsN, pErrAt, pDpc, pRetq, pDhold, pWhold,
                 pDropped, pJoined, pMainTx, pRx, pAcc, pTotal, pPos, pCalls,
                 pWriters, pFinal>>
  /\ UNCHANGED <<pCpus, pOnGpu, pProbe, pFault, pProcessed, pComputed, pTouched>>
  /\ UNCHANGED <<pDispatches, pSentBack>>
  /\ UNCHANGED notPar

(* One iteration of the set-up loop: the unit is created, sent on the      *)
(* return channel, and the worker thread is spawned.                       *)
P_Setup ==
  /\ pDpc = "setup"
  /\ pMade < pN
  /\ pMade' = pMade + 1
  /\ pUnits' = [pUnits EXCEPT ![pMade + 1] = NewUnit(pMade + 1)]
  /\ pRetq' = Append(pRetq, pMade + 1)
  /\ pWpc' = [pWpc EXCEPT ![pMade + 1] = "recv"]
  /\ UNCHANGED <<pN, pD, pBatch, pRowsN, pErrAt, pDpc, pWq, pDhold, pWhold,
                 pDropped, pJoined, pMainTx, pRx, pAcc, pTotal, pPos, pCalls,
                 pWriters, pFinal>>
  /\ UNCHANGED <<pCpus, pOnGpu, pProbe, pFault, pProcessed, pComputed, pTouched>>
  /\ UNCHANGED <<pDispatches, pSentBack>>
  /\ UNCHANGED notPar

P_DropSender ==
  /\ pDpc = "setup"
  /\ pMade = pN
  /\ pMainTx' = FALSE
  /\ pDpc' = "recv"
  /\ UNCHANGED <<pN, pD, pBatch, pRowsN, pErrAt, pMade, pUnits, pRetq, pWq,
                 pDhold, pWhold, pDropped, pWpc, pJoined, pRx, pAcc, pTotal,
                 pPos, pCalls, pWriters, pFinal>>
  /\ UNCHANGED <<pCpus, pOnGpu, pProbe, pFault, pProcessed, pComputed, pTouched>>
  /\ UNCHANGED <<pDispatches, pSentBack>>
  /\ UNCHANGED notPar

WorkerRunning(w) == pWpc[w] \in {"recv", "compute", "send"}

RetSenders == (IF pMainTx THEN 1 ELSE 0) + Cardinality({w \in Workers : WorkerRunning(w)})

(* main_thread_consumer.recv(): a queued unit, or Err once no sender is    *)
(* left; it blocks otherwise.                                              *)
P_Recv ==
  /\ pDpc = "recv"
  /\ \/ /\ pRetq # <<>>
        /\ pDhold' = Head(pRetq)
        /\ pRetq' = Tail(pRetq)
        /\ pDpc' = "process"
     \/ /\ pRetq = <<>>
        /\ RetSenders = 0
        /\ pDpc' = "join"
        /\ UNCHANGED <<pDhold, pRetq>>
  /\ UNCHANGED <<pN, pD, pBatch, pRowsN, pErrAt, pMade, pUnits, pWq, pWhold,
                 pDropped, pWpc, pJoined, pMainTx, pRx, pAcc, pTotal, pPos,
                 pCalls, pWriters, pFinal>>
  /\ UNCHANGED <<pCpus, pOnGpu, pProbe, pFault, pProcessed, pComputed, pTouched>>
  /\ UNCHANGED <<pDispatches, pSentBack>>
  /\ UNCHANGED notPar

MergeTriangle(acc, res, d) ==
  [c \in DOMAIN acc |-> IF (c % d) >= (c \div d) THEN acc[c] + res[c] ELSE acc[c]]

(* The caller's processor: merge the unit's result into the accumulator,   *)
(* zero the result buffer, pull the next batch into the input buffer.      *)
Processor(unit) ==
  LET f == fill_buffer(unit.input_buf, pD, pPos, pRowsN, pErrAt)
  IN  [err   |-> f.err,
       eof   |-> (~f.err) /\ f.count = 0,
       acc   |-> MergeTriangle(pAcc, unit.result_buf, pD),
       count |-> f.count,
       pos   |-> f.pos,
       unit  |-> [unit EXCEPT !.result_buf = VecOf(pD * pD, 0),
                              !.input_buf = Resize(f.buf, f.count * pD, 0)]]

(* let res = processor(&mut work_unit); let is_eof_reached = res?;         *)
(* an Err returns at once, dropping work_unit, the receiver with what it   *)
(* holds, and the join handles; end-of-stream drops the unit.              *)
P_Process ==
  /\ pDpc = "process"
  /\ LET r == Processor(pUnits[pDhold])
     IN  /\ pCalls' = pCalls + 1
         /\ pAcc' = r.acc
         /\ pWriters' = pWriters \cup {"main"}
         /\ pPos' = r.pos
         /\ pTotal' = pTotal + r.count
         /\ pUnits' = [pUnits EXCEPT ![pDhold] = r.unit]
         /\ IF r.err
            THEN /\ pDpc' = "err"
                 /\ pDropped' = pDropped \cup {pDhold} \cup {pRetq[x] : x \in 1..Len(pRetq)}
                 /\ pDhold' = 0
                 /\ pRetq' = <<>>
                 /\ pRx' = FALSE
            ELSE IF r.eof
            THEN /\ pDpc' = "recv"
                 /\ pDropped' = pDropped \cup {pDhold}
                 /\ pDhold' = 0
                 /\ UNCHANGED <<pRetq, pRx>>
            ELSE /\ pDpc' = "dispatch"
                 /\ UNCHANGED <<pDropped, pDhold, pRetq, pRx>>
  /\ UNCHANGED <<pN, pD, pBatch, pRowsN, pErrAt, pMade, pWq, pWhold, pWpc,
                 pJoined, pMainTx, pFinal>>
  /\ pProcessed' = pProcessed \cup {pDhold}
  /\ UNCHANGED <<pCpus, pOnGpu, pProbe, pFault, pComputed, pTouched>>
  /\ UNCHANGED <<pDispatches, pSentBack>>
  /\ UNCHANGED notPar

P_DispatchOther ==
  /\ pDpc = "dispatch"
  /\ LET other == (pUnits[pDhold].sender % pN) + 1
     IN  IF WorkerRunning(other)
         THEN /\ pWq' = [pWq EXCEPT ![other] = Append(@, pDhold)]
              /\ pDpc' = "recv"
              /\ pDispatches' = pDispatches + 1
              /\ UNCHANGED pDropped
         ELSE /\ pDpc' = "panic"
              /\ pDropped' = pDropped \cup {pDhold}
              /\ UNCHANGED <<pWq, pDispatches>>
  /\ pDhold' = 0
  /\ UNCHANGED <<pN, pD, pBatch, pRowsN, pErrAt, pMade, pUnits, pRetq, pWhold,
                 pWpc, pJoined, pMainTx, pRx, pAcc, pTotal, pPos, pCalls,
                 pWriters, pFinal>>
  /\ UNCHANGED <<pCpus, pOnGpu, pProbe, pFault, pProcessed, pComputed, pTouched>>
  /\ UNCHANGED pSentBack
  /\ UNCHANGED notPar

(* work_unit.sender.clone().send(work_unit).unwrap()                       *)
P_DispatchKeep ==
  /\ pDpc = "dispatch"
  /\ pWq' = [pWq EXCEPT ![pUnits[pDhold].sender] = Append(@, pDhold)]
  /\ pDpc' = "recv"
  /\ UNCHANGED <<pN, pD, pBatch, pRowsN, pErrAt, pMade, pUnits, pRetq, pDhold,
                 pWhold, pDropped, pWpc, pJoined, pMainTx, pRx, pAcc, pTotal,
                 pPos, pCalls, pWriters, pFinal>>
  /\ UNCHANGED <<pCpus, pOnGpu, pProbe, pFault, pProcessed, pComputed, pTouched>>
  /\ pDispatches' = pDispatches + 1
  /\ UNCHANGED pSentBack
  /\ UNCHANGED notPar

P_Dispatch ==
  /\ pDpc = "dispatch"
  /\ IF WorkerRunning(pUnits[pDhold].sender)
     THEN /\ pWq' = [pWq EXCEPT ![pUnits[pDhold].sender] = Append(@, pDhold)]
          /\ pDpc' = "recv"
          /\ UNCHANGED pDropped
     ELSE /\ pDpc' = "panic"
          /\ pDropped' = pDropped \cup {pDhold}
          /\ UNCHANGED pWq
  /\ pDhold' = 0
  /\ UNCHANGED <<pN, pD, pBatch, pRowsN, pErrAt, pMade, pUnits, pRetq, pWhold,
                 pWpc, pJoined, pMainTx, pRx, pAcc, pTotal, pPos, pCalls,
                 pWriters, pFinal>>
  /\ UNCHANGED <<pCpus, pOnGpu, pProbe, pFault, pProcessed, pComputed, pTouched>>
  /\ pDispatches' = IF WorkerRunning(pUnits[pDhold].sender) THEN pDispatches + 1 ELSE pDispatches
  /\ UNCHANGED pSentBack
  /\ UNCHANGED notPar

(* worker_thread_consumer.recv(): the only sender of worker w's channel is *)
(* the one inside the unit that carries it.                                *)
SenderAliveKept(w) == w \in 1..pMade

SenderAlive(w) == \E u \in 1..pMade : pUnits[u].sender = w /\ u \notin pDropped

W_Recv(w) ==
  /\ pWpc[w] = "recv"
  /\ \/ /\ pWq[w] # <<>>
        /\ pWhold' = [pWhold EXCEPT ![w] = Head(pWq[w])]
        /\ pWq' = [pWq EXCEPT ![w] = Tail(@)]
        /\ pWpc' = [pWpc EXCEPT ![w] = "compute"]
     \/ /\ pWq[w] = <<>>
        /\ ~SenderAlive(w)
        /\ pWpc' = [pWpc EXCEPT ![w] = "exited"]
        /\ UNCHANGED <<pWhold, pWq>>
  /\ UNCHANGED <<pN, pD, pBatch, pRowsN, pErrAt, pDpc, pMade, pUnits, pRetq,
                 pDhold, pDropped, pJoined, pMainTx, pRx, pAcc, pTotal, pPos,
                 pCalls, pWriters, pFinal>>
  /\ UNCHANGED <<pCpus, pOnGpu, pProbe, pFault, pProcessed, pComputed, pTouched>>
  /\ UNCHANGED <<pDispatches, pSentBack>>
  /\ UNCHANGED notPar

(* The kernel of the run on the unit's buffers.  A run that fails either  *)
(* unwinds the worker thread, which drops the unit it holds, or comes back *)
(* with the result buffer as it was: the kernels return no value and the   *)
(* closure has no other way out.                                           *)
W_Compute(w) ==
  /\ pWpc[w] = "compute"
  /\ pComputed' = pComputed \cup {pWhold[w]}
  /\ \/ /\ pUnits' = [pUnits EXCEPT ![pWhold[w]].result_buf =
                        IF pOnGpu
                        THEN calc_partial_kinship_cublas(pUnits[pWhold[w]].input_buf, @)
                        ELSE kinship_calc_partial_kinship(pUnits[pWhold[w]].input_buf, @)]
        /\ pTouched' = pTouched \cup
                          Touch("kernel",
                                kernel_cells(pUnits[pWhold[w]].input_buf,
                                             calc_ids_num(pUnits[pWhold[w]].result_buf)))
        /\ pWpc' = [pWpc EXCEPT ![w] = "send"]
        /\ UNCHANGED <<pFault, pWhold, pDropped>>
     \/ /\ pFault = "armed"
        /\ pFault' = "panicked"
        /\ pWpc' = [pWpc EXCEPT ![w] = "panicked"]
        /\ pDropped' = pDropped \cup {pWhold[w]}
        /\ pWhold' = [pWhold EXCEPT ![w] = 0]
        /\ UNCHANGED <<pUnits, pTouched>>
     \/ /\ pFault = "armed"
        /\ pFault' = "silent"
        /\ pWpc' = [pWpc EXCEPT ![w] = "send"]
        /\ UNCHANGED <<pUnits, pWhold, pDropped, pTouched>>
  /\ UNCHANGED <<pN, pD, pBatch, pRowsN, pErrAt, pDpc, pMade, pRetq, pWq,
                 pDhold, pJoined, pMainTx, pRx, pAcc, pTotal,
                 pPos, pCalls, pWriters, pFinal>>
  /\ UNCHANGED <<pCpus, pOnGpu, pProbe, pProcessed>>
  /\ UNCHANGED <<pDispatches, pSentBack>>
  /\ UNCHANGED notPar

W_SendDrop(w) ==
  /\ pWpc[w] = "send"
  /\ pWpc' = [pWpc EXCEPT ![w] = "recv"]
  /\ pDropped' = pDropped \cup {pWhold[w]}
  /\ pWhold' = [pWhold EXCEPT ![w] = 0]
  /\ UNCHANGED <<pN, pD, pBatch, pRowsN, pErrAt, pDpc, pMade, pUnits, pRetq, pWq,
                 pDhold, pJoined, pMainTx, pRx, pAcc, pTotal, pPos, pCalls,
                 pWriters, pFinal>>
  /\ UNCHANGED <<pCpus, pOnGpu, pProbe, pFault, pProcessed, pComputed, pTouched>>
  /\ UNCHANGED <<pDispatches, pSentBack>>
  /\ UNCHANGED notPar

(* worker_thread_sender_clone.send(work_unit).unwrap(): the send fails and *)
(* the thread panics once the receiver has been dropped.                   *)
W_Send(w) ==
  /\ pWpc[w] = "send"
  /\ IF pRx
     THEN /\ pRetq' = Append(pRetq, pWhold[w])
          /\ pWpc' = [pWpc EXCEPT ![w] = "recv"]
          /\ UNCHANGED pDropped
     ELSE /\ pWpc' = [pWpc EXCEPT ![w] = "panicked"]
          /\ pDropped' = pDropped \cup {pWhold[w]}
          /\ UNCHANGED pRetq
  /\ pWhold' = [pWhold EXCEPT ![w] = 0]
  /\ UNCHANGED <<pN, pD, pBatch, pRowsN, pErrAt, pDpc, pMade, pUnits, pWq,
                 pDhold, pJoined, pMainTx, pRx, pAcc, pTotal, pPos, pCalls,
                 pWriters, pFinal>>
  /\ UNCHANGED <<pCpus, pOnGpu, pProbe, pFault, pProcessed, pComputed, pTouched>>
  /\ pSentBack' = IF pRx THEN pSentBack + 1 ELSE pSentBack
  /\ UNCHANGED pDispatches
  /\ UNCHANGED notPar

(* threads.into_iter().for_each(|thread| thread.join().expect(..))         *)
P_Join ==
  /\ pDpc = "join"
  /\ LET w == Cardinality(pJoined) + 1
     IN  IF w > pN
         THEN /\ pDpc' = "ok"
              /\ UNCHANGED pJoined
         ELSE /\ pWpc[w] \in {"exited", "panicked"}
              /\ pJoined' = pJoined \cup {w}
              /\ pDpc' = IF pWpc[w] = "panicked" THEN "panic" ELSE "join"
  /\ UNCHANGED <<pN, pD, pBatch, pRowsN, pErrAt, pMade, pUnits, pRetq, pWq,
                 pDhold, pWhold, pDropped, pWpc, pMainTx, pRx, pAcc, pTotal,
                 pPos, pCalls, pWriters, pFinal>>
  /\ UNCHANGED <<pCpus, pOnGpu, pProbe, pFault, pProcessed, pComputed, pTouched>>
  /\ UNCHANGED <<pDispatches, pSentBack>>
  /\ UNCHANGED notPar

(* After Ok(()) the caller finalizes the accumulator with                  *)
(* mirror_and_scale_kinship(acc, ids_num, 1 / total rows).                 *)
P_Finalize ==
  /\ pDpc = "ok"
  /\ pFinal' = mirror_and_scale_kinship([c \in DOMAIN pAcc |-> ToRat(pAcc[c])],
                                        pD, Rat(1, pTotal))
  /\ pDpc' = "finalized"
  /\ UNCHANGED <<pN, pD, pBatch, pRowsN, pErrAt, pMade, pUnits, pRetq, pWq,
                 pDhold, pWhold, pDropped, pWpc, pJoined, pMainTx, pRx, pAcc,
                 pTotal, pPos, pCalls, pWriters>>
  /\ UNCHANGED <<pCpus, pOnGpu, pProbe, pFault, pProcessed, pComputed, pTouched>>
  /\ UNCHANGED <<pDispatches, pSentBack>>
  /\ UNCHANGED notPar

ParNext ==
  \/ P_Probe
  \/ P_Setup
  \/ P_DropSender
  \/ P_Recv
  \/ P_Process
  \/ P_Dispatch
  \/ P_Join
  \/ P_Finalize
  \/ \E w \in Workers : W_Recv(w)
  \/ \E w \in Workers : W_Compute(w)
  \/ \E w \in Workers : W_Send(w)

(***************************************************************************)
(* GenoParser::calc_kinship.                                               *)
(***************************************************************************)
GenoParser_fill_buffer_lines_first(fill_buf, snp_line_size, pos, nrows, errAt) ==
  LET f == ZipFill(fill_buf, snp_line_size, pos, nrows, errAt)
  IN  [f EXCEPT !.pos = IF (~f.err) /\ f.pos < nrows THEN f.pos + 1 ELSE f.pos]

(* fill_buf.chunks_mut(snp_line_size).zip(lines_iter): the chunk first.    *)
GenoParser_fill_buffer(fill_buf, snp_line_size, pos, nrows, errAt) ==
  ZipFill(fill_buf, snp_line_size, pos, nrows, errAt)

calc_kinship_mirror_twice(res, ids_num, total_snps_read) ==
  LET RECURSIVE LoopJ(_, _, _)
      LoopJ(m, i, j) ==
        IF j >= i + 1 THEN m
        ELSE LET m1 == [m EXCEPT ![j * ids_num + i] = RDiv(@, total_snps_read)]
                 m2 == [m1 EXCEPT ![i * ids_num + j] =
                          RDiv(m1[j * ids_num + i], total_snps_read)]
             IN  LoopJ(m2, i, j + 1)
      RECURSIVE LoopI(_, _)
      LoopI(m, i) == IF i >= ids_num THEN m ELSE LoopI(LoopJ(m, i, 0), i + 1)
  IN  LoopI(res, 0)

(* The finalization loop: divide the computed triangle, mirror it.         *)
calc_kinship_mirror(res, ids_num, total_snps_read) ==
  LET RECURSIVE LoopJ(_, _, _)
      LoopJ(m, i, j) ==
        IF j >= i + 1 THEN m
        ELSE LET m1 == [m EXCEPT ![j * ids_num + i] = RDiv(@, total_snps_read)]
                 m2 == [m1 EXCEPT ![i * ids_num + j] = m1[j * ids_num + i]]
             IN  LoopJ(m2, i, j + 1)
      RECURSIVE LoopI(_, _)
      LoopI(m, i) == IF i >= ids_num THEN m ELSE LoopI(LoopJ(m, i, 0), i + 1)
  IN  LoopI(res, 0)

Bufs == 0..(lN - 1)

Tids == 1..Len(lThreads)

LibStart ==
  /\ lN \in 1..MaxN
  /\ lD \in 1..MaxD
  /\ lBatch \in 0..MaxBatch
  /\ lRowsN \in 0..MaxRows
  /\ lErrAt \in 0..lRowsN
  /\ lPc = "start"
  /\ lFree = <<>>
  /\ lIdx = -1
  /\ lReadBufs = <<>>
  /\ lKinBufs = <<>>
  /\ lCommon = <<>>
  /\ lRLock = <<>>
  /\ lKLock = <<>>
  /\ lMLock = 0
  /\ lPoisoned = FALSE
  /\ lThreads = <<>>
  /\ lJoined = 0
  /\ lTotal = 0
  /\ lPos = 0
  /\ lRead = 0
  /\ lRx = FALSE
  /\ lRes = <<>>
  /\ lMergeOrder = <<>>
  /\ lBuf = 0
  /\ lStart = 0
  /\ lCalls = 1
  /\ lTouched = {}

LibInit == LibStart /\ lFault = "none"

(* The batch size check, then the buffers, the channel and its first       *)
(* buf_num indices, and line_iter: a new BufReader on the File of the      *)
(* parser, which reads on from where that File's cursor is.                *)
L_Start ==
  /\ lPc = "start"
  /\ IF lBatch < 1
     THEN /\ lPc' = "panic"
          /\ UNCHANGED <<lFree, lReadBufs, lKinBufs, lCommon, lRLock, lKLock, lRx,
                         lStart>>
     ELSE /\ lPc' = "recv"
          /\ lStart' = lPos
          /\ lCommon' = VecOf(lD * lD, 0)
          /\ lReadBufs' = [i \in Bufs |-> VecOf(lD * lBatch, 0)]
          /\ lKinBufs' = [i \in Bufs |-> VecOf(lD * lD, 0)]
          /\ lRLock' = [i \in Bufs |-> 0]
          /\ lKLock' = [i \in Bufs |-> 0]
          /\ lFree' = [x \in 1..lN |-> x - 1]
          /\ lRx' = TRUE
  /\ UNCHANGED <<lN, lD, lBatch, lRowsN, lErrAt, lIdx, lMLock, lPoisoned,
                 lThreads, lJoined, lTotal, lPos, lRead, lRes, lMergeOrder>>
  /\ UNCHANGED <<lBuf, lCalls, lFault, lTouched>>
  /\ UNCHANGED notLib

(* let freed_buffer_idx = buffer_filler.recv().unwrap();                   *)
L_Recv ==
  /\ lPc = "recv"
  /\ lFree # <<>>
  /\ lIdx' = Head(lFree)
  /\ lFree' = Tail(lFree)
  /\ lPc' = "fill"
  /\ UNCHANGED <<lN, lD, lBatch, lRowsN, lErrAt, lReadBufs, lKinBufs, lCommon,
                 lRLock, lKLock, lMLock, lPoisoned, lThreads, lJoined, lTotal,
                 lPos, lRead, lRx, lRes, lMergeOrder>>
  /\ UNCHANGED <<lBuf, lStart, lCalls, lFault, lTouched>>
  /\ UNCHANGED notLib

(* Self::fill_buffer(&mut *read_buf.lock().unwrap(), ..)? : the lock is    *)
(* taken and released within the statement; an Err returns at once, and    *)
(* drops line_iter with what it had read ahead: the File's cursor stays    *)
(* somewhere between the failing line and the end of the file.             *)
L_Fill ==
  /\ lPc = "fill"
  /\ lRLock[lIdx] = 0
  /\ LET f == GenoParser_fill_buffer(lReadBufs[lIdx], lD, lPos, lRowsN, lErrAt)
     IN  /\ lReadBufs' = [lReadBufs EXCEPT ![lIdx] = f.buf]
         /\ IF f.err
            THEN /\ lPc' = "err"
                 /\ lPos' \in f.pos..lRowsN
                 /\ lRx' = FALSE
                 /\ UNCHANGED <<lTotal, lRead>>
            ELSE IF f.count = 0
            THEN /\ lPc' = "assert"
                 /\ lPos' = f.pos
                 /\ UNCHANGED <<lTotal, lRead, lRx>>
            ELSE /\ lTotal' = lTotal + f.count
                 /\ lPos' = f.pos
                 /\ lRead' = f.count
                 /\ lPc' = IF f.count < lBatch THEN "resize" ELSE "spawn"
                 /\ UNCHANGED lRx
  /\ UNCHANGED <<lN, lD, lBatch, lRowsN, lErrAt, lFree, lIdx, lKinBufs, lCommon,
                 lRLock, lKLock, lMLock, lPoisoned, lThreads, lJoined, lRes,
                 lMergeOrder>>
  /\ UNCHANGED <<lBuf, lStart, lCalls, lFault, lTouched>>
  /\ UNCHANGED notLib

L_ResizeSkip ==
  /\ lPc = "resize"
  /\ lRLock[lIdx] = 0
  /\ lPc' = "spawn"
  /\ UNCHANGED <<lN, lD, lBatch, lRowsN, lErrAt, lFree, lIdx, lReadBufs, lKinBufs,
                 lCommon, lRLock, lKLock, lMLock, lPoisoned, lThreads, lJoined,
                 lTotal, lPos, lRead, lRx, lRes, lMergeOrder>>
  /\ UNCHANGED <<lBuf, lStart, lCalls, lFault, lTouched>>
  /\ UNCHANGED notLib

(* if read_line_amount < batch_size { buf.resize(read_line_amount * ids_num, 0.0) } *)
L_Resize ==
  /\ lPc = "resize"
  /\ lRLock[lIdx] = 0
  /\ lReadBufs' = [lReadBufs EXCEPT ![lIdx] = Resize(@, lRead * lD, 0)]
  /\ lPc' = "spawn"
  /\ UNCHANGED <<lN, lD, lBatch, lRowsN, lErrAt, lFree, lIdx, lKinBufs, lCommon,
                 lRLock, lKLock, lMLock, lPoisoned, lThreads, lJoined, lTotal,
                 lPos, lRead, lRx, lRes, lMergeOrder>>
  /\ UNCHANGED <<lBuf, lStart, lCalls, lFault, lTouched>>
  /\ UNCHANGED notLib

L_SpawnRequeue ==
  /\ lPc = "spawn"
  /\ lThreads' = Append(lThreads, [idx |-> lIdx, pc |-> "lock_read",
                                   from |-> lPos - lRead, rows |-> lRead,
                                   k |-> -1])
  /\ lFree' = Append(lFree, lIdx)
  /\ lIdx' = -1
  /\ lPc' = "recv"
  /\ UNCHANGED <<lN, lD, lBatch, lRowsN, lErrAt, lReadBufs, lKinBufs,
                 lCommon, lRLock, lKLock, lMLock, lPoisoned, lJoined, lTotal,
                 lPos, lRead, lRx, lRes, lMergeOrder>>
  /\ UNCHANGED <<lBuf, lStart, lCalls, lFault, lTouched>>
  /\ UNCHANGED notLib

L_Spawn ==
  /\ lPc = "spawn"
  /\ lThreads' = Append(lThreads, [idx |-> lIdx, pc |-> "lock_read",
                                   from |-> lPos - lRead, rows |-> lRead,
                                   k |-> -1])
  /\ lIdx' = -1
  /\ lPc' = "recv"
  /\ UNCHANGED <<lN, lD, lBatch, lRowsN, lErrAt, lFree, lReadBufs, lKinBufs,
                 lCommon, lRLock, lKLock, lMLock, lPoisoned, lJoined, lTotal,
                 lPos, lRead, lRx, lRes, lMergeOrder>>
  /\ UNCHANGED <<lBuf, lStart, lCalls, lFault, lTouched>>
  /\ UNCHANGED notLib

(* assert!(total_snps_read >= ids_num, ..)                                 *)
L_Assert ==
  /\ lPc = "assert"
  /\ lPc' = IF lTotal >= lD THEN "join" ELSE "panic"
  /\ lRx' = (lTotal >= lD)
  /\ UNCHANGED <<lN, lD, lBatch, lRowsN, lErrAt, lFree, lIdx, lReadBufs, lKinBufs,
                 lCommon, lRLock, lKLock, lMLock, lPoisoned, lThreads, lJoined,
                 lTotal, lPos, lRead, lRes, lMergeOrder>>
  /\ UNCHANGED <<lBuf, lStart, lCalls, lFault, lTouched>>
  /\ UNCHANGED notLib

(* threads.into_iter().for_each(|thread| thread.join().expect(..)), then   *)
(* the seek back to the first SNP line.                                    *)
L_Join ==
  /\ lPc = "join"
  /\ IF lJoined = Len(lThreads)
     THEN /\ lPc' = "mirror"
          /\ UNCHANGED lJoined
     ELSE /\ lThreads[lJoined + 1].pc \in {"done", "panicked"}
          /\ lJoined' = lJoined + 1
          /\ lPc' = IF lThreads[lJoined + 1].pc = "panicked" THEN "panic" ELSE "join"
  /\ UNCHANGED <<lN, lD, lBatch, lRowsN, lErrAt, lFree, lIdx, lReadBufs, lKinBufs,
                 lCommon, lRLock, lKLock, lMLock, lPoisoned, lThreads, lTotal,
                 lPos, lRead, lRx, lRes, lMergeOrder>>
  /\ UNCHANGED <<lBuf, lStart, lCalls, lFault, lTouched>>
  /\ UNCHANGED notLib

(* Arc::try_unwrap(..).into_inner(), the mirror loop, Ok(res).             *)
L_Mirror ==
  /\ lPc = "mirror"
  /\ lRes' = calc_kinship_mirror([c \in DOMAIN lCommon |-> ToRat(lCommon[c])], lD, lTotal)
  /\ lPc' = "ok"
  /\ lPos' = 0
  /\ UNCHANGED <<lN, lD, lBatch, lRowsN, lErrAt, lFree, lIdx, lReadBufs, lKinBufs,
                 lCommon, lRLock, lKLock, lMLock, lPoisoned, lThreads, lJoined,
                 lTotal, lRead, lRx, lMergeOrder>>
  /\ lBuf' = 0
  /\ UNCHANGED <<lStart, lCalls, lFault, lTouched>>
  /\ UNCHANGED notLib

SetPc(t, pc) == [lThreads EXCEPT ![t].pc = pc]

ReleaseAll(locks, t) == [i \in DOMAIN locks |-> IF locks[i] = t THEN 0 ELSE locks[i]]

(* let mut threads_read_buf = read_buf_arc.lock().unwrap();                *)
T_LockRead(t) ==
  /\ lThreads[t].pc = "lock_read"
  /\ lRLock[lThreads[t].idx] = 0
  /\ lRLock' = [lRLock EXCEPT ![lThreads[t].idx] = t]
  /\ lThreads' = SetPc(t, "lock_kins")
  /\ UNCHANGED <<lN, lD, lBatch, lRowsN, lErrAt, lPc, lFree, lIdx, lReadBufs,
                 lKinBufs, lCommon, lKLock, lMLock, lPoisoned, lJoined, lTotal,
                 lPos, lRead, lRx, lRes, lMergeOrder>>
  /\ UNCHANGED <<lBuf, lStart, lCalls, lFault, lTouched>>
  /\ UNCHANGED notLib

(* let mut threads_kins_buf = kins_buf_arc.lock().unwrap();                *)
T_LockKins(t) ==
  /\ lThreads[t].pc = "lock_kins"
  /\ lKLock[lThreads[t].idx] = 0
  /\ lKLock' = [lKLock EXCEPT ![lThreads[t].idx] = t]
  /\ lThreads' = SetPc(t, "compute")
  /\ UNCHANGED <<lN, lD, lBatch, lRowsN, lErrAt, lPc, lFree, lIdx, lReadBufs,
                 lKinBufs, lCommon, lRLock, lMLock, lPoisoned, lJoined, lTotal,
                 lPos, lRead, lRx, lRes, lMergeOrder>>
  /\ UNCHANGED <<lBuf, lStart, lCalls, lFault, lTouched>>
  /\ UNCHANGED notLib

(* calc_partial_kinship(&mut threads_read_buf, &mut threads_kins_buf, ids_num) *)
(* A run of the kernel that fails either unwinds the thread, which lets   *)
(* go of its two guards and never sends its index, or comes back with the  *)
(* result buffer as it was.                                                *)
T_Compute(t) ==
  /\ lThreads[t].pc = "compute"
  /\ LET i == lThreads[t].idx
     IN  \/ /\ lKinBufs' = [lKinBufs EXCEPT ![i] =
                              calc_partial_kinship(lReadBufs[i], @, lD)]
            /\ lThreads' = [lThreads EXCEPT ![t].pc = "lock_res",
                                            ![t].k = VLen(lReadBufs[i]) \div lD]
            /\ lTouched' = lTouched \cup Touch("kernel", kernel_cells(lReadBufs[i], lD))
            /\ UNCHANGED <<lFault, lRLock, lKLock>>
         \/ /\ lFault = "armed"
            /\ lFault' = "panicked"
            /\ lThreads' = SetPc(t, "panicked")
            /\ lRLock' = ReleaseAll(lRLock, t)
            /\ lKLock' = ReleaseAll(lKLock, t)
            /\ UNCHANGED <<lKinBufs, lTouched>>
         \/ /\ lFault = "armed"
            /\ lFault' = "silent"
            /\ lThreads' = SetPc(t, "lock_res")
            /\ UNCHANGED <<lKinBufs, lRLock, lKLock, lTouched>>
  /\ UNCHANGED <<lN, lD, lBatch, lRowsN, lErrAt, lPc, lFree, lIdx, lReadBufs,
                 lCommon, lMLock, lPoisoned, lJoined, lTotal,
                 lPos, lRead, lRx, lRes, lMergeOrder>>
  /\ UNCHANGED <<lBuf, lStart, lCalls>>
  /\ UNCHANGED notLib

T_LockResNoWait(t) ==
  /\ lThreads[t].pc = "lock_res"
  /\ lMLock' = t
  /\ lThreads' = SetPc(t, "merge")
  /\ UNCHANGED <<lN, lD, lBatch, lRowsN, lErrAt, lPc, lFree, lIdx, lReadBufs,
                 lKinBufs, lCommon, lRLock, lKLock, lPoisoned, lJoined, lTotal,
                 lPos, lRead, lRx, lRes, lMergeOrder>>
  /\ UNCHANGED <<lBuf, lStart, lCalls, lFault, lTouched>>
  /\ UNCHANGED notLib

(* let mut res_matrix = res_matrix_arc.lock().unwrap(); a poisoned mutex   *)
(* makes the unwrap panic, which unwinds the two guards already held.      *)
T_LockRes(t) ==
  /\ lThreads[t].pc = "lock_res"
  /\ lMLock = 0
  /\ IF lPoisoned
     THEN /\ lThreads' = SetPc(t, "panicked")
          /\ lRLock' = ReleaseAll(lRLock, t)
          /\ lKLock' = ReleaseAll(lKLock, t)
          /\ UNCHANGED lMLock
     ELSE /\ lMLock' = t
          /\ lThreads' = SetPc(t, "merge")
          /\ UNCHANGED <<lRLock, lKLock>>
  /\ UNCHANGED <<lN, lD, lBatch, lRowsN, lErrAt, lPc, lFree, lIdx, lReadBufs,
                 lKinBufs, lCommon, lPoisoned, lJoined, lTotal, lPos, lRead,
                 lRx, lRes, lMergeOrder>>
  /\ UNCHANGED <<lBuf, lStart, lCalls, lFault, lTouched>>
  /\ UNCHANGED notLib

T_MergeKeep(t) ==
  /\ lThreads[t].pc = "merge"
  /\ LET i == lThreads[t].idx
     IN  lCommon' = [c \in DOMAIN lCommon |-> lCommon[c] + lKinBufs[i][c]]
  /\ lMergeOrder' = Append(lMergeOrder, t)
  /\ lThreads' = SetPc(t, "send")
  /\ UNCHANGED <<lN, lD, lBatch, lRowsN, lErrAt, lPc, lFree, lIdx, lReadBufs,
                 lKinBufs, lRLock, lKLock, lMLock, lPoisoned, lJoined, lTotal,
                 lPos, lRead, lRx, lRes>>
  /\ lTouched' = lTouched \cup Touch("merge", merge_cells(lKinBufs[lThreads[t].idx], lCommon))
  /\ UNCHANGED <<lBuf, lStart, lCalls, lFault>>
  /\ UNCHANGED notLib

(* *common_matrix_elem += *buf_elem; *buf_elem = 0.0; for every element.   *)
T_MergeOverwrite(t) ==
  /\ lThreads[t].pc = "merge"
  /\ LET i == lThreads[t].idx
     IN  /\ lCommon' = [c \in DOMAIN lCommon |-> lKinBufs[i][c]]
         /\ lKinBufs' = [lKinBufs EXCEPT ![i] = [c \in DOMAIN @ |-> 0]]
  /\ lMergeOrder' = Append(lMergeOrder, t)
  /\ lThreads' = SetPc(t, "send")
  /\ UNCHANGED <<lN, lD, lBatch, lRowsN, lErrAt, lPc, lFree, lIdx, lReadBufs,
                 lRLock, lKLock, lMLock, lPoisoned, lJoined, lTotal, lPos,
                 lRead, lRx, lRes>>
  /\ lTouched' = lTouched \cup Touch("merge", merge_cells(lKinBufs[lThreads[t].idx], lCommon))
  /\ UNCHANGED <<lBuf, lStart, lCalls, lFault>>
  /\ UNCHANGED notLib

T_Merge(t) ==
  /\ lThreads[t].pc = "merge"
  /\ LET i == lThreads[t].idx
     IN  /\ lCommon' = [c \in DOMAIN lCommon |-> lCommon[c] + lKinBufs[i][c]]
         /\ lKinBufs' = [lKinBufs EXCEPT ![i] = [c \in DOMAIN @ |-> 0]]
  /\ lMergeOrder' = Append(lMergeOrder, t)
  /\ lThreads' = SetPc(t, "send")
  /\ UNCHANGED <<lN, lD, lBatch, lRowsN, lErrAt, lPc, lFree, lIdx, lReadBufs,
                 lRLock, lKLock, lMLock, lPoisoned, lJoined, lTotal, lPos,
                 lRead, lRx, lRes>>
  /\ lTouched' = lTouched \cup Touch("merge", merge_cells(lKinBufs[lThreads[t].idx], lCommon))
  /\ UNCHANGED <<lBuf, lStart, lCalls, lFault>>
  /\ UNCHANGED notLib

(* kinsh_proc_sender.send(buf_idx).unwrap(): with the receiver gone the    *)
(* thread panics while holding its three guards, poisoning the mutexes.    *)
T_Send(t) ==
  /\ lThreads[t].pc = "send"
  /\ IF lRx
     THEN /\ lFree' = Append(lFree, lThreads[t].idx)
          /\ lThreads' = SetPc(t, "exit")
          /\ UNCHANGED <<lRLock, lKLock, lMLock, lPoisoned>>
     ELSE /\ lThreads' = SetPc(t, "panicked")
          /\ lRLock' = ReleaseAll(lRLock, t)
          /\ lKLock' = ReleaseAll(lKLock, t)
          /\ lMLock' = 0
          /\ lPoisoned' = TRUE
          /\ UNCHANGED lFree
  /\ UNCHANGED <<lN, lD, lBatch, lRowsN, lErrAt, lPc, lIdx, lReadBufs, lKinBufs,
                 lCommon, lJoined, lTotal, lPos, lRead, lRx, lRes, lMergeOrder>>
  /\ UNCHANGED <<lBuf, lStart, lCalls, lFault, lTouched>>
  /\ UNCHANGED notLib

T_ExitHold(t) ==
  /\ lThreads[t].pc = "exit"
  /\ lMLock' = 0
  /\ lThreads' = SetPc(t, "done")
  /\ UNCHANGED <<lN, lD, lBatch, lRowsN, lErrAt, lPc, lFree, lIdx, lReadBufs,
                 lKinBufs, lCommon, lRLock, lKLock, lPoisoned, lJoined, lTotal,
                 lPos, lRead, lRx, lRes, lMergeOrder>>
  /\ UNCHANGED <<lBuf, lStart, lCalls, lFault, lTouched>>
  /\ UNCHANGED notLib

(* The closure ends: the three guards are dropped.                         *)
T_Exit(t) ==
  /\ lThreads[t].pc = "exit"
  /\ lRLock' = ReleaseAll(lRLock, t)
  /\ lKLock' = ReleaseAll(lKLock, t)
  /\ lMLock' = 0
  /\ lThreads' = SetPc(t, "done")
  /\ UNCHANGED <<lN, lD, lBatch, lRowsN, lErrAt, lPc, lFree, lIdx, lReadBufs,
                 lKinBufs, lCommon, lPoisoned, lJoined, lTotal, lPos, lRead,
                 lRx, lRes, lMergeOrder>>
  /\ UNCHANGED <<lBuf, lStart, lCalls, lFault, lTouched>>
  /\ UNCHANGED notLib

(* A later call of calc_kinship on the same parser, after one that         *)
(* returned: everything the earlier call owned is gone, the parser keeps   *)
(* its File and its reader.                                                *)
L_Again ==
  /\ lPc \in {"ok", "err"}
  /\ lCalls < MaxCalls
  /\ lCalls' = lCalls + 1
  /\ lPc' = "start"
  /\ lFree' = <<>> /\ lIdx' = -1
  /\ lReadBufs' = <<>> /\ lKinBufs' = <<>> /\ lCommon' = <<>>
  /\ lRLock' = <<>> /\ lKLock' = <<>> /\ lMLock' = 0 /\ lPoisoned' = FALSE
  /\ lThreads' = <<>> /\ lJoined' = 0 /\ lTotal' = 0 /\ lRead' = 0
  /\ lRx' = FALSE /\ lRes' = <<>> /\ lMergeOrder' = <<>>
  /\ lTouched' = {}
  /\ UNCHANGED <<lN, lD, lBatch, lRowsN, lErrAt, lPos, lBuf, lStart, lFault>>
  /\ UNCHANGED notLib

(* iter() seeks self.file_reader to the first SNP line; the caller then    *)
(* takes j items.  The reader fills its buffer from the File, whose cursor *)
(* ends at or past the last line taken.  parse_snp_rec passes over the     *)
(* line calc_kinship cannot decode, skips it, or panics on it.             *)
L_Iter ==
  /\ lPc = "start"
  /\ \E j \in 0..lRowsN :
       \/ /\ lErrAt \in 1..j
          /\ lPc' = "panic"
          /\ lPos' \in lErrAt..lRowsN
          /\ lBuf' = lPos' - lErrAt
       \/ /\ lPc' = lPc
          /\ lPos' \in j..lRowsN
          /\ lBuf' = lPos' - j
  /\ UNCHANGED <<lN, lD, lBatch, lRowsN, lErrAt, lFree, lIdx, lReadBufs,
                 lKinBufs, lCommon, lRLock, lKLock, lMLock, lPoisoned, lThreads,
                 lJoined, lTotal, lRead, lRx, lRes, lMergeOrder>>
  /\ UNCHANGED <<lStart, lCalls, lFault, lTouched>>
  /\ UNCHANGED notLib

(* read_all(): the position of self.file_reader is taken (which puts the   *)
(* File's cursor there and empties the buffer), read_geno reads to the end *)
(* of the file, and the reader is put back where it was.                   *)
L_ReadAll ==
  /\ lPc = "start"
  /\ LET snps_start_pos == IF lPos >= lBuf THEN lPos - lBuf ELSE 0
     IN  \/ /\ lErrAt > snps_start_pos
            /\ lPc' = "panic"
            /\ lPos' = lRowsN
            /\ lBuf' = lRowsN - lErrAt
         \/ /\ lPc' = lPc
            /\ lPos' = snps_start_pos
            /\ lBuf' = 0
  /\ UNCHANGED <<lN, lD, lBatch, lRowsN, lErrAt, lFree, lIdx, lReadBufs,
                 lKinBufs, lCommon, lRLock, lKLock, lMLock, lPoisoned, lThreads,
                 lJoined, lTotal, lRead, lRx, lRes, lMergeOrder>>
  /\ UNCHANGED <<lStart, lCalls, lFault, lTouched>>
  /\ UNCHANGED notLib

LibNext ==
  \/ L_Start
  \/ L_Recv
  \/ L_Fill
  \/ L_Resize
  \/ L_Spawn
  \/ L_Assert
  \/ L_Join
  \/ L_Mirror
  \/ \E t \in Tids : T_LockRead(t)
  \/ \E t \in Tids : T_LockKins(t)
  \/ \E t \in Tids : T_Compute(t)
  \/ \E t \in Tids : T_LockRes(t)
  \/ \E t \in Tids : T_Merge(t)
  \/ \E t \in Tids : T_Send(t)
  \/ \E t \in Tids : T_Exit(t)


KInit ==
  /\ kD \in 1..MaxD
  /\ kRows \in RowSeqs(kD, MaxK)
  /\ kBefore \in StartBufs(kD)
  /\ kAfter = kBefore
  /\ kpc = "input"

KRunLib ==
  /\ kpc = "input"
  /\ kAfter' = calc_partial_kinship(Pack(kRows, kD), kBefore, kD)
  /\ kpc' = "lib"
  /\ UNCHANGED <<kD, kRows, kBefore>>
  /\ UNCHANGED notKernel

KRunPar ==
  /\ kpc = "input"
  /\ kAfter' = kinship_calc_partial_kinship(Pack(kRows, kD), kBefore)
  /\ kpc' = "par"
  /\ UNCHANGED <<kD, kRows, kBefore>>
  /\ UNCHANGED notKernel


(***************************************************************************)
(* The finalization step applied to a matrix, and applied again.           *)
(***************************************************************************)
MatVals == {1, 3}

MInit ==
  /\ mD \in 1..MaxD
  /\ mIn \in [0..(mD * mD - 1) -> MatVals]
  /\ mTotal \in 1..MaxRows
  /\ mOnce = <<>>
  /\ mTwice = <<>>
  /\ mpc = "input"

M_Par ==
  /\ mpc = "input"
  /\ mOnce' = mirror_and_scale_kinship([c \in DOMAIN mIn |-> ToRat(mIn[c])],
                                       mD, Rat(1, mTotal))
  /\ mpc' = "par"
  /\ UNCHANGED <<mD, mIn, mTotal, mTwice>>
  /\ UNCHANGED notMirror

(* The same call once more on the matrix it gave: with the same scale, or  *)
(* with a scale of 1.                                                      *)
M_ParAgain ==
  /\ mpc = "par"
  /\ \/ /\ mTwice' = mirror_and_scale_kinship(mOnce, mD, Rat(1, mTotal))
        /\ mpc' = "par_same"
     \/ /\ mTwice' = mirror_and_scale_kinship(mOnce, mD, Rat(1, 1))
        /\ mpc' = "par_unit"
  /\ UNCHANGED <<mD, mIn, mTotal, mOnce>>
  /\ UNCHANGED notMirror

M_Lib ==
  /\ mpc = "input"
  /\ mOnce' = calc_kinship_mirror([c \in DOMAIN mIn |-> ToRat(mIn[c])], mD, mTotal)
  /\ mpc' = "lib"
  /\ UNCHANGED <<mD, mIn, mTotal, mTwice>>
  /\ UNCHANGED notMirror

M_LibAgain ==
  /\ mpc = "lib"
  /\ \/ /\ mTwice' = calc_kinship_mirror(mOnce, mD, mTotal)
        /\ mpc' = "lib_same"
     \/ /\ mTwice' = calc_kinship_mirror(mOnce, mD, 1)
        /\ mpc' = "lib_unit"
  /\ UNCHANGED <<mD, mIn, mTotal, mOnce>>
  /\ UNCHANGED notMirror

MNext ==
  \/ M_Par
  \/ M_ParAgain
  \/ M_Lib
  \/ M_LibAgain

MIdle ==
  /\ mD = 1 /\ mIn = <<>> /\ mTotal = 1 /\ mOnce = <<>> /\ mTwice = <<>>
  /\ mpc = "idle"

(***************************************************************************)
(* The decoding of one line <id TAB snps ..>.  A line is the sequence of   *)
(* the pieces split('\t') gives, a piece a sequence of characters.         *)
(***************************************************************************)
Chars == {"A", "B", "X"}

hab_mapper == [ch \in {"A", "B"} |-> IF ch = "A" THEN 0 ELSE 1]

Pieces == UNION {[1..m -> Chars] : m \in 0..MaxSnp}

Lines == {<<x>> : x \in {<<"A">>}}
         \cup {<<x[1], x[2]>> : x \in {<<"A">>} \X Pieces}
         \cup {<<x[1], x[2], x[3]>> : x \in {<<"A">>} \X Pieces \X Pieces}

Unmapped(snp) == {x \in 1..Len(snp) : snp[x] \notin DOMAIN hab_mapper}

FirstUnmapped(snp) == CHOOSE x \in Unmapped(snp) : \A y \in Unmapped(snp) : x <= y

(* GenoParser::parse_into: Err without a second piece, Err on a length     *)
(* other than the slot's, Err on the first character the mapper lacks.     *)
parse_into(parsed_snp_buf_len, snp_line) ==
  IF Len(snp_line) < 2
  THEN [kind |-> "err", why |-> "no_tab", ch |-> "", vals |-> <<>>]
  ELSE LET snp == snp_line[2]
       IN  IF parsed_snp_buf_len # Len(snp)
           THEN [kind |-> "err", why |-> "length", ch |-> "", vals |-> <<>>]
           ELSE IF Unmapped(snp) # {}
           THEN [kind |-> "err", why |-> "char", ch |-> snp[FirstUnmapped(snp)],
                 vals |-> <<>>]
           ELSE [kind |-> "ok", why |-> "", ch |-> "",
                 vals |-> [x \in 1..Len(snp) |-> hab_mapper[snp[x]]]]

(* parse_snp_rec: Err without a second piece; then every character goes    *)
(* through hab_mapper.get(..).expect(..), which panics on one the mapper   *)
(* lacks; the length is not looked at.                                     *)
parse_snp_rec(line) ==
  IF Len(line) < 2
  THEN [kind |-> "err", why |-> "no_tab", ch |-> "", vals |-> <<>>]
  ELSE LET snp == line[2]
       IN  IF Unmapped(snp) # {}
           THEN [kind |-> "panic", why |-> "char", ch |-> snp[FirstUnmapped(snp)],
                 vals |-> <<>>]
           ELSE [kind |-> "ok", why |-> "", ch |-> "",
                 vals |-> [x \in 1..Len(snp) |-> hab_mapper[snp[x]]]]

DInit ==
  /\ dLine \in Lines
  /\ dLen \in 1..MaxD
  /\ dInto = <<>>
  /\ dRec = <<>>
  /\ dpc = "input"
  /\ dIter = [kind |-> "not_called", vals |-> <<>>, pos |-> 0]

D_ParseInto ==
  /\ dpc \in {"input", "rec"}
  /\ dInto' = parse_into(dLen, dLine)
  /\ dpc' = IF dpc = "input" THEN "into" ELSE "both"
  /\ UNCHANGED <<dLine, dLen, dRec, dIter>>
  /\ UNCHANGED notDecode

D_ParseSnpRec ==
  /\ dpc \in {"input", "into"}
  /\ dRec' = parse_snp_rec(dLine)
  /\ dpc' = IF dpc = "input" THEN "rec" ELSE "both"
  /\ UNCHANGED <<dLine, dLen, dInto, dIter>>
  /\ UNCHANGED notDecode

(* A row of the file that decodes: an id and d mapped characters.          *)
GoodLine(d) == <<<<"A">>, [x \in 1..d |-> "B"]>>

(* GenoParserIter::next on the lines after the first pos ones: the next    *)
(* line goes through parse_snp_rec; Ok is the item; on Err the message is  *)
(* printed and next() is called again; None at the end of the lines.       *)
RECURSIVE GenoParserIter_next(_, _)
GenoParserIter_next(lines, pos) ==
  IF pos >= Len(lines)
  THEN [kind |-> "none", vals |-> <<>>, pos |-> pos]
  ELSE LET r == parse_snp_rec(lines[pos + 1])
       IN  IF r.kind = "ok" THEN [kind |-> "some", vals |-> r.vals, pos |-> pos + 1]
           ELSE IF r.kind = "err" THEN GenoParserIter_next(lines, pos + 1)
           ELSE [kind |-> "panic", vals |-> <<>>, pos |-> pos + 1]

D_IterNext ==
  /\ dIter.kind = "not_called"
  /\ dIter' = GenoParserIter_next(<<dLine, GoodLine(dLen)>>, 0)
  /\ UNCHANGED <<dLine, dLen, dInto, dRec, dpc>>
  /\ UNCHANGED notDecode

DNext ==
  \/ D_ParseInto
  \/ D_ParseSnpRec
  \/ D_IterNext

DIdle ==
  /\ dLine = <<>> /\ dLen = 1 /\ dInto = <<>> /\ dRec = <<>> /\ dpc = "idle"
  /\ dIter = [kind |-> "idle", vals |-> <<>>, pos |-> 0]

(***************************************************************************)
(* The head of a file (src/src/reader.rs, GenoParser::new_with_file).  A   *)
(* file is the sequence of its characters; the cursor counts the           *)
(* characters behind it.                                                   *)
(***************************************************************************)
FileChars == {"#", "a", "\t", "\n"}

Files == UNION {[1..m -> FileChars] : m \in 0..MaxFile}

LineEnd(file, pos) ==
  LET nl == {x \in (pos + 1)..Len(file) : file[x] = "\n"}
  IN  IF nl = {} THEN Len(file) ELSE CHOOSE x \in nl : \A y \in nl : x <= y

(* BufRead::read_line: up to and with the next newline, or up to the end.  *)
read_line(file, pos) == SubSeq(file, pos + 1, LineEnd(file, pos))

(* The loop of consume_comments2.  &buf_str[1..buf_str.len() - 1] panics   *)
(* on a line that is the marker alone, with no newline after it.           *)
RECURSIVE consume_comments2_loop(_, _, _)
consume_comments2_loop(file, comments_bytes_count, res) ==
  LET buf_str == read_line(file, comments_bytes_count)
      read_bytes_count == Len(buf_str)
  IN  IF read_bytes_count > 0 /\ buf_str[1] = "#"
      THEN IF read_bytes_count < 2
           THEN [kind |-> "panic", comments |-> <<>>, pos |-> Len(file)]
           ELSE consume_comments2_loop(
                  file, comments_bytes_count + read_bytes_count,
                  Append(res, SubSeq(buf_str, 2, read_bytes_count - 1)))
      ELSE IF read_bytes_count = 0
           THEN [kind |-> "err", comments |-> <<>>, pos |-> Len(file)]
           ELSE [kind |-> "ok", comments |-> res, pos |-> comments_bytes_count]

consume_comments2(file) == consume_comments2_loop(file, 0, <<>>)

(* GenoParser::consume_markers at the cursor consume_comments2 left: the   *)
(* line without its last character, split at the tabs, first piece off.    *)
consume_markers(file, start_pos) ==
  LET markers == read_line(file, start_pos)
      markers_len == Len(markers)
      line == SubSeq(markers, 1, markers_len - 1)
  IN  [markers |-> Cardinality({x \in 1..Len(line) : line[x] = "\t"}),
       pos     |-> start_pos + markers_len]

new_with_file(file) ==
  LET c == consume_comments2(file)
  IN  IF c.kind # "ok"
      THEN [kind |-> c.kind, comments |-> <<>>, markers |-> 0, snp_pos_start |-> 0]
      ELSE LET m == consume_markers(file, c.pos)
           IN  [kind |-> "ok", comments |-> c.comments, markers |-> m.markers,
                snp_pos_start |-> m.pos]

RInit ==
  /\ rFile \in Files
  /\ rComments = <<>>
  /\ rParser = <<>>
  /\ rpc = "input"

R_ConsumeComments ==
  /\ rpc \in {"input", "new"}
  /\ rComments' = consume_comments2(rFile)
  /\ rpc' = IF rpc = "input" THEN "comments" ELSE "both"
  /\ UNCHANGED <<rFile, rParser>>
  /\ UNCHANGED notReader

R_New ==
  /\ rpc \in {"input", "comments"}
  /\ rParser' = new_with_file(rFile)
  /\ rpc' = IF rpc = "input" THEN "new" ELSE "both"
  /\ UNCHANGED <<rFile, rComments>>
  /\ UNCHANGED notReader

RNext ==
  \/ R_ConsumeComments
  \/ R_New

RIdle ==
  /\ rFile = <<>> /\ rComments = <<>> /\ rParser = <<>> /\ rpc = "idle"

XIdle == MIdle /\ DIdle /\ RIdle

LibIdle ==
  /\ lN = 1 /\ lD = 1 /\ lBatch = 1 /\ lRowsN = 0 /\ lErrAt = 0
  /\ lPc = "idle" /\ lFree = <<>> /\ lIdx = -1 /\ lReadBufs = <<>>
  /\ lKinBufs = <<>> /\ lCommon = <<>> /\ lRLock = <<>> /\ lKLock = <<>>
  /\ lMLock = 0 /\ lPoisoned = FALSE /\ lThreads = <<>> /\ lJoined = 0
  /\ lTotal = 0 /\ lPos = 0 /\ lRead = 0 /\ lRx = FALSE /\ lRes = <<>>
  /\ lMergeOrder = <<>>
  /\ lBuf = 0 /\ lStart = 0 /\ lCalls = 0 /\ lFault = "none"
  /\ lTouched = {}

KIdle ==
  /\ kD = 1
  /\ kRows = <<>>
  /\ kBefore = <<>>
  /\ kAfter = <<>>
  /\ kpc = "idle"

ParIdle ==
  /\ pN = 0 /\ pD = 1 /\ pBatch = 1 /\ pRowsN = 0 /\ pErrAt = 0
  /\ pDpc = "idle" /\ pMade = 0 /\ pUnits = <<>> /\ pRetq = <<>> /\ pWq = <<>>
  /\ pDhold = 0 /\ pWhold = <<>> /\ pDropped = {} /\ pWpc = <<>>
  /\ pJoined = {} /\ pMainTx = FALSE /\ pRx = FALSE /\ pAcc = <<>>
  /\ pTotal = 0 /\ pPos = 0 /\ pCalls = 0 /\ pWriters = {} /\ pFinal = <<>>
  /\ pCpus = 1 /\ pOnGpu = FALSE /\ pProbe = "none" /\ pFault = "none"
  /\ pProcessed = {} /\ pComputed = {} /\ pTouched = {}
  /\ pDispatches = 0 /\ pSentBack = 0

KNext ==
  \/ KRunLib
  \/ KRunPar

KernelInit == KInit /\ ParIdle /\ LibIdle /\ XIdle

KernelSpec == KernelInit /\ [][KNext]_vars

LibSpecInit == LibInit /\ ParIdle /\ KIdle /\ XIdle

LibSpec == LibSpecInit /\ [][LibNext]_vars

(* The parser used again and again: calc_kinship, iter, read_all.          *)
AgainNext ==
  \/ LibNext
  \/ L_Again
  \/ L_Iter
  \/ L_ReadAll

AgainSpec == LibSpecInit /\ [][AgainNext]_vars

(* Runs in which one run of the kernel fails.                              *)
FaultInit ==
  /\ \/ ParStart /\ pFault = "armed" /\ LibIdle
     \/ LibStart /\ lFault = "armed" /\ ParIdle
  /\ KIdle /\ XIdle

MirrorInit == MInit /\ ParIdle /\ LibIdle /\ KIdle /\ DIdle /\ RIdle

MirrorSpec == MirrorInit /\ [][MNext]_vars

DecodeInit == DInit /\ ParIdle /\ LibIdle /\ KIdle /\ MIdle /\ RIdle

DecodeSpec == DecodeInit /\ [][DNext]_vars

ReaderInit == RInit /\ ParIdle /\ LibIdle /\ KIdle /\ MIdle /\ DIdle

ReaderSpec == ReaderInit /\ [][RNext]_vars

FaultNext == ParNext \/ LibNext

FaultSpec == FaultInit /\ [][FaultNext]_vars

BothInit ==
  /\ (ParInit /\ LibIdle) \/ (LibInit /\ ParIdle)
  /\ KIdle /\ XIdle

BothNext == ParNext \/ LibNext

BothSpec == BothInit /\ [][BothNext]_vars

ParSpecInit == ParInit /\ LibIdle /\ KIdle /\ XIdle

ParSpec == ParSpecInit /\ [][ParNext]_vars

RECURSIVE SumProd(_, _, _)
SumProd(rows, a, b) ==
  IF rows = <<>> THEN 0
  ELSE Head(rows)[a] * Head(rows)[b] + SumProd(Tail(rows), a, b)

ExampleRows == <<[c \in 0..1 |-> 1 + c], [c \in 0..1 |-> 4 + c]>>

(* C5: after a kernel run on K rows of length D, every cell j*D+i with     *)
(* j <= i has grown by the sum over the rows of row[j]*row[i] and every    *)
(* cell with i < j is unchanged; rows [1,2],[4,5] on a zero buffer give    *)
(* 17, 22, 29 and an untouched fourth cell.                                *)
C5_KernelClosedForm ==
  kpc \in {"lib", "par"} =>
    /\ DOMAIN kAfter = 0..(kD * kD - 1)
    /\ \A j \in 0..(kD - 1) : \A i \in 0..(kD - 1) :
         kAfter[j * kD + i] =
           IF j <= i THEN kBefore[j * kD + i] + SumProd(kRows, j, i)
           ELSE kBefore[j * kD + i]
    /\ (kD = 2 /\ kRows = ExampleRows /\ kBefore = VecOf(4, 0)) =>
         (kAfter[0] = 17 /\ kAfter[1] = 22 /\ kAfter[3] = 29 /\ kAfter[2] = 0)

C5_Witness ==
  /\ kpc = "lib"
  /\ kD = 2
  /\ kRows = ExampleRows
  /\ kBefore = VecOf(4, 0)
  /\ kAfter[1] = 22

(* The scheduler runs every thread that can take a step.  Termination is   *)
(* checked on files of at most MaxFairRows rows.                           *)
FairParInit == ParSpecInit /\ pRowsN <= MaxFairRows

FairParSpec == FairParInit /\ [][ParNext]_vars /\ WF_vars(ParNext)

(***************************************************************************)
(* Claims about calc_kinship_parallel.                                     *)
(***************************************************************************)
InSeq(u, q) == Cardinality({x \in 1..Len(q) : q[x] = u})

Holders(u) ==
  InSeq(u, pRetq)
  + (IF pDhold = u THEN 1 ELSE 0)
  + Cardinality({w \in Workers : pWhold[w] = u})
  + Cardinality({wx \in Workers \X (1..pN) :
                   wx[2] <= Len(pWq[wx[1]]) /\ pWq[wx[1]][wx[2]] = u})

(* C1: every WorkUnit that exists is held by exactly one actor: it sits in *)
(* the return queue, or the dispatcher holds it, or it sits in one         *)
(* worker's queue, or one worker holds it; a dropped unit is held by none. *)
C1_OneHolder ==
  \A u \in 1..pMade : Holders(u) = IF u \in pDropped THEN 0 ELSE 1

C1_Witness ==
  /\ pDpc = "dispatch"
  /\ \E w \in Workers : pWpc[w] = "compute" /\ pWhold[w] # pDhold /\ pWhold[w] # 0

ReturnedOk == pDpc \in {"ok", "finalized"}

(* C3: with a processor that never fails, calc_kinship_parallel, once its  *)
(* pool is set up (no probe of the GPU path failed), eventually returns    *)
(* Ok; at that point every unit has been dropped, every worker has *)
(* terminated and been joined, and the receive loop has ended only with no *)
(* sender of the return channel left.                                      *)
C3_TerminatesOk ==
  /\ (pErrAt = 0 /\ pDpc = "setup") ~> ReturnedOk
  /\ [](ReturnedOk =>
          /\ pDropped = 1..pN
          /\ \A w \in Workers : pWpc[w] = "exited"
          /\ pJoined = Workers)
  /\ [][(pDpc = "recv" /\ pDpc' = "join") => RetSenders = 0]_vars

C3_Witness ==
  /\ pDpc = "ok"
  /\ pErrAt = 0
  /\ pN = 2
  /\ pTotal >= 2
  /\ pJoined = Workers

(***************************************************************************)
(* Claims about GenoParser::calc_kinship.                                  *)
(***************************************************************************)
StreamRows(d, from, n) == [r \in 1..n |-> Geno(from + r, d)]

AddVec(a, b) == [c \in DOMAIN a |-> a[c] + b[c]]

(* The batches taken one after the other by a single thread.               *)
RECURSIVE SeqAccum(_, _, _, _, _)
SeqAccum(acc, d, batch, pos, n) ==
  IF pos >= n THEN acc
  ELSE LET cnt  == Min(batch, n - pos)
           part == calc_partial_kinship(Pack(StreamRows(d, pos, cnt), d),
                                        VecOf(d * d, 0), d)
       IN  SeqAccum(AddVec(acc, part), d, batch, pos + cnt, n)

SeqKinship(d, batch, n) ==
  calc_kinship_mirror([c \in 0..(d * d - 1) |->
                         ToRat(SeqAccum(VecOf(d * d, 0), d, batch, 0, n)[c])],
                      d, n)

(* C4: the matrix calc_kinship returns depends on the stream and the batch *)
(* size only: for every pool size and every order in which the workers     *)
(* finish and merge it is the matrix the batches give when taken one after *)
(* the other.                                                              *)
C4_SameForEveryPoolAndOrder ==
  lPc = "ok" => lRes = SeqKinship(lD, lBatch, lRowsN)

C4_Witness ==
  /\ lPc = "ok"
  /\ lN = 2
  /\ lD = 2
  /\ \E x \in 1..Len(lMergeOrder) : \E y \in 1..Len(lMergeOrder) :
       x < y /\ lMergeOrder[x] > lMergeOrder[y]

(* C6: the returned matrix is fully populated and symmetric, and cell      *)
(* (a,b) is the sum over all rows of row[a]*row[b] divided once by the     *)
(* number of rows; rows [1,2],[4,5] give 8.5 in cell (0,0) and equal cells *)
(* (0,1) and (1,0).                                                        *)
C6_FinalMatrix ==
  lPc = "ok" =>
    /\ DOMAIN lRes = 0..(lD * lD - 1)
    /\ lTotal = lRowsN
    /\ \A a \in 0..(lD - 1) : \A b \in 0..(lD - 1) :
         /\ lRes[a * lD + b] = Rat(SumProd(StreamRows(lD, 0, lRowsN), a, b), lRowsN)
         /\ lRes[a * lD + b] = lRes[b * lD + a]
    /\ (lD = 2 /\ lRowsN = 2) =>
         (lRes[0] = <<17, 2>> /\ lRes[1] = <<11, 1>> /\ lRes[2] = <<11, 1>>)

C6_Witness ==
  /\ lPc = "ok"
  /\ lD = 2
  /\ lRowsN = 2
  /\ lRes[0] = <<17, 2>>
  /\ lRes[2] = lRes[1]

Computed(t) == lThreads[t].pc \in {"lock_res", "merge"}

(* C7: every kernel run covers exactly the rows read into its batch, and   *)
(* the partial result it leaves holds the products of those rows only,     *)
(* also when the buffer held a full batch before and the batch is short.   *)
C7_LastBatchExact ==
  \A t \in Tids :
    /\ lThreads[t].k # -1 => lThreads[t].k = lThreads[t].rows
    /\ Computed(t) =>
         \A j \in 0..(lD - 1) : \A i \in j..(lD - 1) :
           lKinBufs[lThreads[t].idx][j * lD + i] =
             SumProd(StreamRows(lD, lThreads[t].from, lThreads[t].rows), j, i)

C7_Witness ==
  \E t \in Tids : \E t0 \in Tids :
    /\ t0 < t
    /\ lThreads[t0].idx = lThreads[t].idx
    /\ lThreads[t0].rows = lBatch
    /\ lThreads[t].rows < lBatch
    /\ lThreads[t].pc = "lock_res"
    /\ lRowsN = 5
    /\ lBatch = 2

UsesBuffers(t) == lThreads[t].pc \in {"compute", "lock_res", "merge"}

(* C9: for every buffer index at most one thread computes on or merges     *)
(* from its buffer pair at a time, and while the main thread fills,        *)
(* resizes or hands out an index no worker is computing on or merging from *)
(* that index.                                                             *)
C9_OneComputerPerBuffer ==
  /\ \A i \in Bufs : Cardinality({t \in Tids : lThreads[t].idx = i /\ UsesBuffers(t)}) <= 1
  /\ lPc \in {"fill", "resize", "spawn"} =>
       \A t \in Tids : lThreads[t].idx = lIdx => ~UsesBuffers(t)

C9_Witness ==
  /\ lPc = "fill"
  /\ lN = 2
  /\ \E t \in Tids : lThreads[t].idx # lIdx /\ lThreads[t].pc = "compute"
  /\ \E t \in Tids : lThreads[t].idx = lIdx /\ lThreads[t].pc = "exit"

(***************************************************************************)
(* Claims about both engines.                                              *)
(***************************************************************************)
(* C2: when the error of the record stream is returned to the caller, no   *)
(* worker thread is still at work: none of calc_kinship_parallel's workers *)
(* is computing or sending, every thread of calc_kinship has finished.     *)
C2_NoWorkerAtWorkOnError ==
  /\ pDpc = "err" => \A w \in Workers : pWpc[w] \notin {"compute", "send"}
  /\ lPc = "err" => \A t \in Tids : lThreads[t].pc \in {"done", "panicked"}

(* C8 as claimed: no worker ever writes the accumulator, in either engine. *)
C8_OnlyDispatcherWrites ==
  /\ pWriters \subseteq {"main"}
  /\ lMergeOrder = <<>>

(* C8: in calc_kinship_parallel only the dispatcher's processor call       *)
(* changes the accumulator; in calc_kinship the worker threads write the   *)
(* common matrix, each only while it holds the matrix mutex, which one     *)
(* thread holds at a time, and the main thread touches the matrix only     *)
(* once every worker has been joined.                                      *)
C8_SingleWriterAtATime ==
  /\ [][pAcc' # pAcc => (pDpc = "process" /\ pDpc' # pDpc)]_vars
  /\ [](\A t \in Tids : lThreads[t].pc \in {"merge", "send", "exit"} => lMLock = t)
  /\ [][lCommon' # lCommon =>
          \/ lPc = "start"
          \/ (lMLock \in Tids /\ lThreads[lMLock].pc = "merge"
              /\ lThreads'[lMLock].pc = "send")]_vars
  /\ [](lPc \in {"mirror", "ok"} => \A t \in Tids : lThreads[t].pc = "done")

C8_Witness ==
  /\ lMLock \in Tids
  /\ lThreads[lMLock].pc = "send"
  /\ \E t \in Tids : lThreads[t].pc = "lock_res"
  /\ Len(lMergeOrder) >= 2

C10_LibRejects == lPc = "ok" => lTotal >= lD


(* C11: a batch size of 0 is rejected before any worker thread is spawned  *)
(* and before any buffer is handed out: calc_kinship with batch_size 0     *)
(* creates no buffer, queues no index and spawns no thread, and            *)
(* calc_kinship_parallel with read_buf_size 0 creates no unit, sends none  *)
(* and spawns no worker.                                                   *)
C11_ZeroBatchRejected ==
  /\ lBatch = 0 =>
       /\ lPc \in {"start", "panic"}
       /\ lThreads = <<>> /\ lFree = <<>> /\ lReadBufs = <<>> /\ lIdx = -1
  /\ pBatch = 0 =>
       /\ pMade = 0 /\ pRetq = <<>>
       /\ \A w \in Workers : pWpc[w] = "unspawned"

(* C11, the calc_kinship half alone: the panic on batch_size < 1 comes     *)
(* before the buffers, the channel and every spawn.                        *)
C11_LibRejects ==
  lBatch = 0 =>
    /\ lPc \in {"start", "panic"}
    /\ lThreads = <<>> /\ lFree = <<>> /\ lReadBufs = <<>> /\ lIdx = -1

(* C12: with on_gpu, a probe that fails (a library that does not load, no  *)
(* device) makes calc_kinship_parallel return the GPU error with no        *)
(* channel, no WorkUnit and no worker thread created and no kernel run;    *)
(* a run with on_gpu that goes on has passed both probes.                  *)
C12_CapabilityGate ==
  /\ pProbe \in (ProbeOutcomes \ {"ok"}) => pDpc = "caperr"
  /\ pDpc = "caperr" =>
       /\ pOnGpu /\ pProbe \in (ProbeOutcomes \ {"ok"})
       /\ pN = 0 /\ pMade = 0 /\ pUnits = <<>> /\ pWpc = <<>> /\ pRetq = <<>>
       /\ ~pMainTx /\ ~pRx
       /\ pComputed = {} /\ pCalls = 0
  /\ (pOnGpu /\ pDpc \notin {"probe", "caperr", "idle"}) => pProbe = "ok"

C12_Witness ==
  /\ pDpc = "caperr"
  /\ pProbe = "no_device"
  /\ pRowsN >= 2
  /\ pCpus = 2

(* C14 as claimed: a unit the dispatcher's receive loop passes to the      *)
(* processor has been computed on by a worker before.                      *)
C14_ComputedBeforeDispatcher ==
  pDpc = "process" => pDhold \in pComputed

ZeroVec(v) == \A c \in DOMAIN v : v[c] = 0

(* C14: every WorkUnit is created with zeroed buffers and sent on the      *)
(* return channel during set-up, when no worker is handed anything; a unit *)
(* reaches a worker only after the receive loop has passed it to the       *)
(* processor, so a worker computes only on units that went through it.     *)
C14_FirstBatchInsideLoop ==
  /\ pDpc \in {"probe", "setup"} =>
       /\ \A w \in Workers : pWq[w] = <<>> /\ pWhold[w] = 0
       /\ pRetq = [x \in 1..pMade |-> x]
       /\ \A u \in 1..pMade :
            ZeroVec(pUnits[u].input_buf) /\ ZeroVec(pUnits[u].result_buf)
  /\ \A w \in Workers :
       /\ pWhold[w] # 0 => pWhold[w] \in pProcessed
       /\ \A x \in 1..Len(pWq[w]) : pWq[w][x] \in pProcessed
  /\ pComputed \subseteq pProcessed

C14_Witness ==
  /\ pDpc = "process"
  /\ pDhold \notin pComputed
  /\ \E w \in Workers : pWpc[w] = "compute" /\ pWhold[w] \in pProcessed


(* C13: once a run of the kernel has failed inside a worker, the call ends *)
(* with an error returned to the caller: it neither returns Ok (having     *)
(* gone on with the rest of the stream) nor aborts by panic.               *)
C13_KernelFailureReturnsError ==
  /\ pFault \in {"panicked", "silent"} => pDpc \notin {"ok", "finalized", "panic"}
  /\ lFault \in {"panicked", "silent"} => lPc \notin {"ok", "panic"}

(* C15: every call of calc_kinship on a parser, whatever calls of          *)
(* calc_kinship, read_all or iter came before it and however they ended,   *)
(* starts to read at the first data row.                                   *)
C15_StartsAtFirstRow ==
  lPc \in {"recv", "fill", "resize", "spawn", "assert", "join", "mirror",
           "ok", "err"} => lStart = 0

(* C15, a first call on a new parser alone: it starts at the first data    *)
(* row, and a call that returns Ok leaves the cursor there again.          *)
C15_FirstCallStartsAtFirstRow ==
  /\ (lCalls = 1 /\ lPc \notin {"start", "panic"}) => lStart = 0
  /\ lPc = "ok" => (lPos = 0 /\ lBuf = 0)

CeilDiv(a, b) == (a + b - 1) \div b

PoolOfCalcKinshipParallel ==
  /\ pDpc \notin {"probe", "caperr", "idle"} =>
       /\ pN = (IF pOnGpu THEN Min(pCpus, GpuCap) ELSE pCpus)
       /\ DOMAIN pUnits = 1..pN
       /\ pMade <= pN
       /\ pDpc # "setup" => pMade = pN
       /\ \A w \in Workers : (pWpc[w] # "unspawned") <=> (w <= pMade)

(* C19 as claimed: calc_kinship, too, never spawns more threads than its   *)
(* pool has slots, however many batches the stream holds.                  *)
C19_FixedThreadPool ==
  /\ PoolOfCalcKinshipParallel
  /\ Len(lThreads) <= lN

(* C19: calc_kinship_parallel creates exactly N WorkUnits and N worker     *)
(* threads, N the CPU count without the GPU and min(CPU count, 10) with    *)
(* it, all during set-up and whatever the stream holds; calc_kinship has a *)
(* fixed pool of N buffer pairs, but spawns one thread for every batch it  *)
(* reads.                                                                  *)
C19_FixedPool ==
  /\ PoolOfCalcKinshipParallel
  /\ lPc \in {"recv", "fill", "resize", "spawn", "assert", "join", "mirror",
              "ok", "err"} =>
       /\ DOMAIN lReadBufs = Bufs /\ DOMAIN lKinBufs = Bufs
       /\ \A t \in Tids : lThreads[t].idx \in Bufs
       /\ Len(lThreads) = CeilDiv(lTotal, lBatch)
                          - (IF lPc \in {"resize", "spawn"} THEN 1 ELSE 0)

C19_Witness ==
  /\ lPc = "ok"
  /\ lN = 2
  /\ Len(lThreads) = 3

C19_WitnessCap ==
  /\ pDpc = "ok"
  /\ pCpus = BigCpus
  /\ pMade = GpuCap

(* C20: the check that total rows >= D, the mirror loop and the return of  *)
(* the matrix happen only when every spawned thread has merged, terminated *)
(* and been joined.                                                        *)
C20_FinalizationAfterJoin ==
  lPc \in {"assert", "mirror", "ok"} =>
    /\ \A t \in Tids : lThreads[t].pc = "done"
    /\ lJoined = Len(lThreads)

(* C20, the steps after the check alone: the mirror loop and the return    *)
(* come after every thread has been joined.                                *)
C20_MirrorAfterJoin ==
  lPc \in {"mirror", "ok"} =>
    /\ \A t \in Tids : lThreads[t].pc = "done"
    /\ lJoined = Len(lThreads)


(***************************************************************************)
(* Claims about the finalization step, the decoding and the file head.     *)
(***************************************************************************)
(* C16 as claimed: the step applied a second time, as it was the first,    *)
(* gives the matrix the first application gave.                            *)
C16_SecondApplicationSame ==
  mpc \in {"par_same", "lib_same"} => mTwice = mOnce

Symmetric(m, d) == \A a \in 0..(d - 1) : \A b \in 0..(d - 1) : m[a * d + b] = m[b * d + a]

(* C16: what one application gives is symmetric; a second application      *)
(* with scale 1 (mirror_and_scale_kinship) or divisor 1 (the loop of       *)
(* calc_kinship) gives the same matrix; a second application with the same *)
(* scale gives the symmetric matrix whose cells are scaled once more.      *)
C16_MirrorIdempotent ==
  /\ mpc \notin {"input", "idle"} =>
       /\ Symmetric(mOnce, mD)
       /\ \A a \in 0..(mD - 1) : \A b \in a..(mD - 1) :
            mOnce[a * mD + b] = Rat(mIn[a * mD + b], mTotal)
  /\ mpc \in {"par_unit", "lib_unit"} => mTwice = mOnce
  /\ mpc \in {"par_same", "lib_same"} =>
       \A c \in DOMAIN mOnce : mTwice[c] = RDiv(mOnce[c], mTotal)

C16_Witness ==
  /\ mpc = "par_unit"
  /\ mD = 2
  /\ mTotal = 2
  /\ mIn[1] # mIn[2]
  /\ mTwice = mOnce
  /\ mOnce[2] = mOnce[1]

HasUnmapped(line) == Len(line) >= 2 /\ Unmapped(line[2]) # {}

(* C17: a line with a character the mapping table lacks gives an error     *)
(* result from parse_into and from parse_snp_rec.                          *)
C17_UnmappedCharIsError ==
  HasUnmapped(dLine) =>
    /\ dpc \in {"into", "both"} => dInto.kind = "err"
    /\ dpc \in {"rec", "both"} => dRec.kind = "err"

(* C17, parse_into alone: every such line gives Err, and the Err names the *)
(* character when the length of the line is the slot's.                    *)
C17_ParseIntoErrs ==
  (HasUnmapped(dLine) /\ dpc \in {"into", "both"}) =>
    /\ dInto.kind = "err"
    /\ Len(dLine[2]) = dLen => (dInto.why = "char" /\ dInto.ch \notin DOMAIN hab_mapper)

LineStarts(file) == {x \in 1..Len(file) : x = 1 \/ file[x - 1] = "\n"}

OnlyComments(file) == \A x \in LineStarts(file) : file[x] = "#"

(* C18: a file that ends before any line that is not a comment (an empty   *)
(* file, a file of comment lines only) makes consume_comments2 and         *)
(* GenoParser::new_with_file return an error.                              *)
C18_NoDataLineIsError ==
  OnlyComments(rFile) =>
    /\ rpc \in {"comments", "both"} => rComments.kind = "err"
    /\ rpc \in {"new", "both"} => rParser.kind = "err"

(* C18, never a parser: whatever such a file holds, no parser is made.     *)
C18_NoParser ==
  (OnlyComments(rFile) /\ rpc \in {"new", "both"}) => rParser.kind # "ok"

(***************************************************************************)
(* Claims about malformed rows.                                            *)
(***************************************************************************)
Malformed(line, d) == Len(line) < 2 \/ Len(line[2]) # d

(* C21: a row without a tab, or whose value string is not D long, ends     *)
(* every decoding path with a failure: parse_into and parse_snp_rec do not *)
(* accept it, and GenoParserIter::next does not pass over it to give the   *)
(* row after it.                                                           *)
C21_MalformedIsFatal ==
  Malformed(dLine, dLen) =>
    /\ dpc \in {"into", "both"} => dInto.kind # "ok"
    /\ dpc \in {"rec", "both"} => dRec.kind # "ok"
    /\ dIter.kind \notin {"not_called", "idle"} =>
         ~(dIter.kind = "some" /\ dIter.pos > 1)

(* C21, parse_into alone: such a row gives Err, for the missing tab or for *)
(* the length.                                                             *)
C21_ParseIntoFatal ==
  (Malformed(dLine, dLen) /\ dpc \in {"into", "both"}) =>
    /\ dInto.kind = "err"
    /\ dInto.why = (IF Len(dLine) < 2 THEN "no_tab" ELSE "length")

(***************************************************************************)
(* Claims about the buffers between runs.                                  *)
(***************************************************************************)
RowsOf(buf, d) ==
  [r \in 1..(VLen(buf) \div d) |-> [c \in 0..(d - 1) |-> buf[(r - 1) * d + c]]]

OneBatch(res, rows, d) ==
  \A j \in 0..(d - 1) : \A i \in 0..(d - 1) :
    res[j * d + i] = IF j <= i THEN SumProd(rows, j, i) ELSE 0

(* C22: a kernel run starts on a result buffer of zeros, and the partial   *)
(* result that goes to the merge holds the products of the rows of one     *)
(* batch and nothing else; in GenoParser::calc_kinship for every index,    *)
(* however often it has been used before.                                  *)
C22_CleanResultBuffer ==
  /\ \A t \in Tids :
       /\ lThreads[t].pc = "compute" => ZeroVec(lKinBufs[lThreads[t].idx])
       /\ Computed(t) =>
            OneBatch(lKinBufs[lThreads[t].idx],
                     StreamRows(lD, lThreads[t].from, lThreads[t].rows), lD)
  /\ \A w \in Workers :
       /\ pWpc[w] = "compute" => ZeroVec(pUnits[pWhold[w]].result_buf)
       /\ pWpc[w] = "send" =>
            OneBatch(pUnits[pWhold[w]].result_buf,
                     RowsOf(pUnits[pWhold[w]].input_buf, pD), pD)

C22_Witness ==
  \E t \in Tids : \E t0 \in Tids :
    /\ t0 < t
    /\ lThreads[t0].idx = lThreads[t].idx
    /\ lThreads[t].pc = "compute"
    /\ ~ZeroVec(lCommon)
    /\ ZeroVec(lKinBufs[lThreads[t].idx])

C22_WitnessPar ==
  \E w \in Workers :
    /\ pWpc[w] = "compute"
    /\ pWhold[w] \in pComputed
    /\ ~ZeroVec(pAcc)
    /\ ZeroVec(pUnits[pWhold[w]].result_buf)

(***************************************************************************)
(* Claims about the triangle.                                              *)
(***************************************************************************)
InTriangle(c, d) == (c % d) >= (c \div d)

(* C23 as claimed: the cells outside the triangle keep their initial       *)
(* value, and no kernel run and no merge goes over one of them.            *)
C23_NothingOutsideTouched ==
  /\ \A c \in DOMAIN lCommon : ~InTriangle(c, lD) => lCommon[c] = 0
  /\ \A x \in lTouched : InTriangle(x.cell, lD)
  /\ \A c \in DOMAIN pAcc : ~InTriangle(c, pD) => pAcc[c] = 0
  /\ \A x \in pTouched : InTriangle(x.cell, pD)

(* C23: through all kernel runs and merges every cell strictly outside the *)
(* triangle j*D+i, i >= j, of the accumulator and of the result buffers    *)
(* stays at its initial zero, and no kernel run goes over such a cell; a   *)
(* merge of GenoParser::calc_kinship goes over every cell of the two       *)
(* vectors, the cells outside the triangle being zeros added to zeros.     *)
C23_TriangleOnly ==
  /\ \A c \in DOMAIN lCommon : ~InTriangle(c, lD) =>
       /\ lCommon[c] = 0
       /\ \A i \in Bufs : lKinBufs[i][c] = 0
  /\ \A x \in lTouched :
       /\ x.by = "kernel" => InTriangle(x.cell, lD)
       /\ x.by = "merge" => x.cell \in DOMAIN lCommon
  /\ lMergeOrder # <<>> => \A c \in DOMAIN lCommon : [by |-> "merge", cell |-> c] \in lTouched
  /\ \A c \in DOMAIN pAcc : ~InTriangle(c, pD) =>
       /\ pAcc[c] = 0
       /\ \A u \in DOMAIN pUnits : pUnits[u].result_buf[c] = 0
  /\ \A x \in pTouched : InTriangle(x.cell, pD)

C23_Witness ==
  /\ lD = 2
  /\ Len(lMergeOrder) >= 2
  /\ lCommon[1] # 0
  /\ lCommon[2] = 0
  /\ [by |-> "kernel", cell |-> 1] \in lTouched
  /\ [by |-> "kernel", cell |-> 2] \notin lTouched

C23_WitnessPar ==
  /\ pD = 2
  /\ pCalls >= 3
  /\ pAcc[1] # 0
  /\ pAcc[2] = 0
  /\ [by |-> "kernel", cell |-> 1] \in pTouched

(***************************************************************************)
(* Claims about the stream between batches.                                *)
(***************************************************************************)
RECURSIVE RowsBefore(_)
RowsBefore(t) == IF t <= 1 THEN 0 ELSE RowsBefore(t - 1) + lThreads[t - 1].rows

(* C24: the lines taken from the stream are the lines counted: after every *)
(* fill_buffer call that returned a count the rows behind the cursor are   *)
(* the sum of the counts so far, each batch starts at the row after the    *)
(* batch before it and holds min(slots, rows left) rows, and when          *)
(* calc_kinship returns Ok the counts sum to the number of data rows.      *)
C24_NoLineLost ==
  /\ lPc \in {"recv", "fill", "resize", "spawn", "assert", "join", "mirror"} =>
       lPos - lStart = lTotal
  /\ \A t \in Tids :
       /\ lThreads[t].from = lStart + RowsBefore(t)
       /\ lThreads[t].rows = Min(lBatch, lRowsN - lThreads[t].from)
  /\ lPc = "spawn" => lPos = lStart + RowsBefore(Len(lThreads) + 1) + lRead
  /\ lPc \in {"join", "mirror", "ok"} => lTotal = lRowsN - lStart
  /\ pDpc \in {"recv", "process", "dispatch", "join", "ok", "finalized"} =>
       pPos = pTotal
  /\ \A u \in DOMAIN pUnits :
       (pDpc = "dispatch" /\ pDhold = u) =>
         /\ VLen(pUnits[u].input_buf) = pD * Min(pBatch, pRowsN - (pPos - VLen(pUnits[u].input_buf) \div pD))
         /\ RowsOf(pUnits[u].input_buf, pD) =
              StreamRows(pD, pPos - VLen(pUnits[u].input_buf) \div pD,
                         VLen(pUnits[u].input_buf) \div pD)

C24_Witness ==
  /\ lPc = "ok"
  /\ lRowsN = 5
  /\ lBatch = 2
  /\ Len(lThreads) = 3
  /\ lThreads[3].from = 4
  /\ lThreads[3].rows = 1
  /\ lTotal = 5

C24_WitnessPar ==
  /\ pDpc = "dispatch"
  /\ pBatch = 2
  /\ pPos = 4
  /\ pTotal = 4
  /\ pRowsN = 5

(***************************************************************************)
(* Claims about the units and the processor.                               *)
(***************************************************************************)
InFlight ==
  Cardinality({w \in Workers : pWhold[w] # 0})
  + Cardinality({wx \in Workers \X (1..pN) : wx[2] <= Len(pWq[wx[1]])})

(* C25: when calc_kinship_parallel returns Ok the processor has run once   *)
(* on each of the N units of the set-up and once on every unit a worker    *)
(* sent back; every unit dispatched to a worker was computed on and sent   *)
(* back, so the processor has run N + dispatches times and no computed     *)
(* result was dropped unprocessed.  While the loop runs, what has been     *)
(* sent on the return channel is what was processed, is being processed or *)
(* is queued.                                                              *)
C25_EveryResultProcessed ==
  /\ pDpc \in {"setup", "recv", "process", "dispatch", "join", "ok", "finalized"} =>
       /\ pMade + pSentBack = pCalls + Len(pRetq) + (IF pDpc = "process" THEN 1 ELSE 0)
       /\ pDispatches = pSentBack + InFlight
  /\ ReturnedOk =>
       /\ pCalls = pN + pDispatches
       /\ pSentBack = pDispatches
       /\ pRetq = <<>>
       /\ InFlight = 0
       /\ pComputed \subseteq pProcessed

C25_Witness ==
  /\ pDpc = "ok"
  /\ pN = 2
  /\ pDispatches = 3
  /\ pCalls = 5
  /\ pSentBack = 3

(* C26: a unit keeps the sender it was made with and goes only to the      *)
(* worker of that sender, so worker i receives and computes on unit i      *)
(* only; a worker's channel never holds more than one unit and the return  *)
(* channel never more than N.                                              *)
C26_OwnUnitOnly ==
  /\ \A u \in DOMAIN pUnits : pUnits[u].sender = u
  /\ \A w \in Workers :
       /\ pWhold[w] # 0 => (pWhold[w] = w /\ pUnits[pWhold[w]].sender = w)
       /\ \A x \in 1..Len(pWq[w]) : pWq[w][x] = w
       /\ Len(pWq[w]) <= 1
  /\ Len(pRetq) <= pN

C26_Witness ==
  /\ pN = 2
  /\ pWpc[2] = "compute"
  /\ pWhold[2] = 2
  /\ 2 \in pComputed
  /\ pWq[1] = <<1>>
  /\ pDispatches >= 3

C26_WitnessFull ==
  /\ pN = 2
  /\ Len(pRetq) = 2
  /\ pDpc = "recv"

(***************************************************************************)
(* Claims about progress in GenoParser::calc_kinship.                      *)
(***************************************************************************)
Returned == lPc \in {"ok", "err", "panic", "idle"}

Finished(t) == lThreads[t].pc \in {"done", "panicked"}

(* C27: calc_kinship never deadlocks: as long as the call has not returned *)
(* (and as long as a spawned thread has not ended) some thread can take a  *)
(* step; when the main thread waits for an index or for a lock, a worker   *)
(* can go on.                                                              *)
C27_NoDeadlock ==
  /\ (~Returned \/ \E t \in Tids : ~Finished(t)) => ENABLED LibNext
  /\ (lPc = "recv" /\ lFree = <<>>) => \E t \in Tids : ~Finished(t)
  /\ (lPc \in {"fill", "resize"} /\ lRLock[lIdx] # 0) =>
       (lRLock[lIdx] \in Tids /\ lThreads[lRLock[lIdx]].pc = "exit")

C27_Witness ==
  /\ lPc = "fill"
  /\ lRLock[lIdx] # 0
  /\ lN = 2
  /\ \E t \in Tids : lThreads[t].pc = "lock_res" /\ lMLock # 0

====
